---------------------------- MODULE Spec2Model ----------------------------
(***************************************************************************)
(* Obstacle-aware recursive decomposition of a region with no-fly zones.   *)
(*                                                                         *)
(* Geometry is modelled on an integer grid: the root region and every      *)
(* obstacle are axis-aligned rectangles with integer corners (one grid     *)
(* step is one length unit of the program), so every sub-region and every  *)
(* clipped obstacle the program derives from them is again a rectangle, a  *)
(* segment or empty.  Lengths that involve a square root (diagonals, WCRT) *)
(* are kept in fixed point, Scale parts per unit, rounded down.  A root    *)
(* solver returns a grid coordinate.                                       *)
(***************************************************************************)
EXTENDS Integers, Sequences, FiniteSets, TLC

(***************************************************************************)
(* Bounds of the model                                                     *)
(***************************************************************************)
\* largest side of a root region, in grid steps
MaxSide == 6
\* largest max_depth given to the driver
MaxDepthBound == 2
\* fixed-point resolution: HalfScale parts per half length unit
HalfScale == 50
\* how far from the region a Newton iterate is followed
NewtonFar == 20

\* side of the regions the solver is followed on at sub-grid resolution
MaxSolverSide == 7

\* sub-grid steps per grid unit, and the fixed-point scale of a slope
Sub == 1000

SlopeScale == 10000

\* how far outside the region, in grid units, a Newton iterate is followed
SolverFar == 8
\* side of the regions the axis selector is run on alone
MaxAxisSide == 8
\* side of the region the strip manager is run on alone
MaxStripSide == 3
\* shorter side of the regions the divider is run on alone
MaxDividerSide == 2
\* fixed-point resolution of an NWCRT value: NScale parts per unit
NScale == 10000

(***************************************************************************)
(* Program constants                                                       *)
(***************************************************************************)
DRONE_THRESHOLD == 5
\* COVERAGE_RATIO_STOP = 0.90 as the fraction CoverageNum / CoverageDen
CoverageNum == 9
CoverageDen == 10
\* tie_threshold = 1e-2 as 1 / TieThresholdInv
TieThresholdInv == 100
\* max_iter of the Newton iteration
NewtonMaxIter == 100

\* fixed-point parts per length unit (even, so that 0.5 * perimeter is exact)
Scale == 2 * HalfScale

(***************************************************************************)
(* Small arithmetic helpers                                                *)
(***************************************************************************)
Abs(n) == IF n < 0 THEN -n ELSE n

Sign(n) == IF n < 0 THEN -1 ELSE IF n > 0 THEN 1 ELSE 0

Min2(a, b) == IF a < b THEN a ELSE b

Max2(a, b) == IF a > b THEN a ELSE b

RECURSIVE IsqrtIter(_, _, _)
\* largest r in lo..hi with r*r <= n, by bisection
IsqrtIter(n, lo, hi) ==
    IF lo >= hi THEN lo
    ELSE LET mid == (lo + hi + 1) \div 2
         IN  IF mid * mid <= n THEN IsqrtIter(n, mid, hi)
             ELSE IsqrtIter(n, lo, mid - 1)

\* math.sqrt on fixed-point input: floor of the square root
Isqrt(n) == IsqrtIter(n, 0, 46340)

RECURSIVE SeqSum(_)
SeqSum(s) == IF s = <<>> THEN 0 ELSE Head(s) + SeqSum(Tail(s))

RECURSIVE SortSet(_)
\* sorted(events): the elements of a finite set of integers in increasing order
SortSet(S) ==
    IF S = {} THEN <<>>
    ELSE LET m == CHOOSE x \in S : \A y \in S : x <= y
         IN  <<m>> \o SortSet(S \ {m})

(***************************************************************************)
(* Geometry: a rectangle is its bounds; "x" / "y" name the axes            *)
(***************************************************************************)
Rect(x1, y1, x2, y2) == [minx |-> x1, miny |-> y1, maxx |-> x2, maxy |-> y2]

\* lower / upper bound of r along the axis, and along the other axis
Lo(r, axis) == IF axis = "x" THEN r.minx ELSE r.miny

Hi(r, axis) == IF axis = "x" THEN r.maxx ELSE r.maxy

OLo(r, axis) == IF axis = "x" THEN r.miny ELSE r.minx

OHi(r, axis) == IF axis = "x" THEN r.maxy ELSE r.maxx

Width(r) == r.maxx - r.minx

Height(r) == r.maxy - r.miny

\* region.is_empty: no point at all (a segment is not empty)
IsEmpty(r) == r.maxx < r.minx \/ r.maxy < r.miny

\* a polygon with positive area
IsPolygonal(r) == r.maxx > r.minx /\ r.maxy > r.miny

\* region.area
Area(r) == IF IsPolygonal(r) THEN Width(r) * Height(r) ELSE 0

\* a.intersection(b) of two rectangles (possibly a segment, a point or empty)
Intersection(a, b) ==
    Rect(Max2(a.minx, b.minx), Max2(a.miny, b.miny),
         Min2(a.maxx, b.maxx), Min2(a.maxy, b.maxy))

(***************************************************************************)
(* Strip manager (strip_perimeter.py).  A manager is the record built by   *)
(* Strip.__init__; obstacles is the list of obstacle rectangles.           *)
(***************************************************************************)
\* Strip.define_events: region bounds and every obstacle vertex coordinate
define_events(region, obstacles, axis) ==
    SortSet({Lo(region, axis), Hi(region, axis)}
            \cup {Lo(obstacles[i], axis) : i \in DOMAIN obstacles}
            \cup {Hi(obstacles[i], axis) : i \in DOMAIN obstacles})

\* Strip.create_strips: <<c_prev, c_curr>> for consecutive events
create_strips(events) ==
    [i \in 1..(Len(events) - 1) |-> <<events[i], events[i + 1]>>]

\* box(c_prev, miny, c_curr, maxy) resp. box(minx, c_prev, maxx, c_curr)
StripBox(region, axis, a, b) ==
    IF axis = "x" THEN Rect(a, region.miny, b, region.maxy)
    ELSE Rect(region.minx, a, region.maxx, b)

\* the same edge with the edges collinear with coord_prev counted too
ParallelEdgeCountedTwice(region, axis, sir, coord_prev, e, obs) ==
    IF e < Lo(sir, axis) \/ e > Hi(sir, axis)
       \/ Min2(OHi(obs, axis), OHi(sir, axis))
              <= Max2(OLo(obs, axis), OLo(sir, axis)) THEN 0
    ELSE IF e = Lo(region, axis) \/ e = Hi(region, axis) THEN 0
    ELSE Min2(OHi(obs, axis), OHi(sir, axis))
         - Max2(OLo(obs, axis), OLo(sir, axis))

\* One obstacle edge that is parallel to the sweepline, at axis coordinate e,
\* clipped to strip_in_region sir: excluded when it lies on the region
\* boundary or is collinear with the strip's lower coordinate coord_prev.
ParallelEdgeInStrip(region, axis, sir, coord_prev, e, obs) ==
    LET lo == Max2(OLo(obs, axis), OLo(sir, axis))
        hi == Min2(OHi(obs, axis), OHi(sir, axis))
    IN  IF e < Lo(sir, axis) \/ e > Hi(sir, axis) \/ hi <= lo THEN 0
        ELSE IF e = Lo(region, axis) \/ e = Hi(region, axis) THEN 0
        ELSE IF e = coord_prev THEN 0
        ELSE hi - lo

\* One obstacle edge that runs along the axis, at orthogonal coordinate f
AlongEdgeInStrip(region, axis, sir, f, obs) ==
    LET lo == Max2(Lo(obs, axis), Lo(sir, axis))
        hi == Min2(Hi(obs, axis), Hi(sir, axis))
    IN  IF f < OLo(sir, axis) \/ f > OHi(sir, axis) \/ hi <= lo THEN 0
        ELSE IF f = OLo(region, axis) \/ f = OHi(region, axis) THEN 0
        ELSE hi - lo

\* the four exterior edges of one obstacle within the strip
ObstacleEdgesInStrip(region, axis, sir, coord_prev, obs) ==
    ParallelEdgeInStrip(region, axis, sir, coord_prev, Lo(obs, axis), obs)
    + ParallelEdgeInStrip(region, axis, sir, coord_prev, Hi(obs, axis), obs)
    + AlongEdgeInStrip(region, axis, sir, OLo(obs, axis), obs)
    + AlongEdgeInStrip(region, axis, sir, OHi(obs, axis), obs)

\* Strip.compute_strip_perimeter for the strip box from a to b
compute_strip_perimeter(region, obstacles, axis, a, b) ==
    LET strip == StripBox(region, axis, a, b)
        coord_prev == Lo(strip, axis)
        strip_in_region == Intersection(strip, region)
    IN  IF IsEmpty(strip_in_region) \/ IsEmpty(region) THEN 0
        ELSE SeqSum([i \in DOMAIN obstacles |->
                 ObstacleEdgesInStrip(region, axis, strip_in_region,
                                      coord_prev, obstacles[i])])

RECURSIVE CumulativeUpTo(_, _, _, _, _)
\* accumulated_perimeter after the first k strips
CumulativeUpTo(region, obstacles, axis, strips, k) ==
    IF k = 0 THEN 0
    ELSE CumulativeUpTo(region, obstacles, axis, strips, k - 1)
         + compute_strip_perimeter(region, obstacles, axis,
                                   strips[k][1], strips[k][2])

\* Strip.compute_perimeters: cumulative_perimeters[c_curr] for every strip
compute_perimeters(region, obstacles, axis, strips) ==
    [c \in {strips[k][2] : k \in DOMAIN strips} |->
        LET k == CHOOSE j \in DOMAIN strips : strips[j][2] = c
        IN  CumulativeUpTo(region, obstacles, axis, strips, k)]

\* Strip.__init__
Strip(region, obstacles, axis) ==
    LET events == define_events(region, obstacles, axis)
        strips == create_strips(events)
    IN  [region |-> region, obstacles |-> obstacles, axis |-> axis,
         events |-> events, strips |-> strips,
         cumulative_perimeters |->
            compute_perimeters(region, obstacles, axis, strips)]

\* Strip.query_accumulated_perimeter
query_accumulated_perimeter(sp, coord) ==
    IF coord \in DOMAIN sp.cumulative_perimeters
    THEN sp.cumulative_perimeters[coord]
    ELSE LET before == {e \in DOMAIN sp.cumulative_perimeters : e <= coord}
         IN  IF before = {} THEN 0
             ELSE LET last_event == CHOOSE e \in before :
                                       \A f \in before : f <= e
                      hit == {k \in DOMAIN sp.strips :
                                /\ sp.strips[k][1] = last_event
                                /\ coord < sp.strips[k][2]}
                  IN  sp.cumulative_perimeters[last_event]
                      + (IF hit = {} THEN 0
                         ELSE compute_strip_perimeter(sp.region, sp.obstacles,
                                  sp.axis, last_event, coord))

\* one obstacle's exterior length outside the region boundary
ObstacleUnalignedLength(region, obs) ==
    (IF obs.minx = region.minx \/ obs.minx = region.maxx THEN 0 ELSE Height(obs))
    + (IF obs.maxx = region.minx \/ obs.maxx = region.maxx THEN 0 ELSE Height(obs))
    + (IF obs.miny = region.miny \/ obs.miny = region.maxy THEN 0 ELSE Width(obs))
    + (IF obs.maxy = region.miny \/ obs.maxy = region.maxy THEN 0 ELSE Width(obs))

\* Strip.calculate_total_obstacle_perimeter
calculate_total_obstacle_perimeter(sp) ==
    IF IsEmpty(sp.region)
    THEN SeqSum([i \in DOMAIN sp.obstacles |->
                    2 * Width(sp.obstacles[i]) + 2 * Height(sp.obstacles[i])])
    ELSE SeqSum([i \in DOMAIN sp.obstacles |->
                    ObstacleUnalignedLength(sp.region, sp.obstacles[i])])

\* math.sqrt(a**2 + b**2) in fixed point
Hypot(a, b) == Isqrt((a * a + b * b) * Scale * Scale)

\* Strip.calculate_region_diagonal
calculate_region_diagonal(sp) == Hypot(Width(sp.region), Height(sp.region))

\* extent of the region across the axis (height for "x", width for "y")
OrthExtent(sp) == OHi(sp.region, sp.axis) - OLo(sp.region, sp.axis)

\* Strip.calculate_diagonal_at_coordinate
calculate_diagonal_at_coordinate(sp, coord) ==
    Hypot(OrthExtent(sp), coord - Lo(sp.region, sp.axis))

\* Strip.calculate_diagonal_right
calculate_diagonal_right(sp, coord) ==
    Hypot(OrthExtent(sp), Hi(sp.region, sp.axis) - coord)

\* Strip.calculate_region_wcrt: diagonal + 0.5 * total obstacle perimeter
calculate_region_wcrt(sp) ==
    calculate_region_diagonal(sp)
    + HalfScale * calculate_total_obstacle_perimeter(sp)

\* Strip.calculate_wcrt_left
calculate_wcrt_left(sp, division_point) ==
    calculate_diagonal_at_coordinate(sp, division_point)
    + HalfScale * query_accumulated_perimeter(sp, division_point)

\* Strip.calculate_wcrt_right
calculate_wcrt_right(sp, division_point) ==
    calculate_diagonal_right(sp, division_point)
    + HalfScale * (calculate_total_obstacle_perimeter(sp)
                   - query_accumulated_perimeter(sp, division_point))

(***************************************************************************)
(* Numerical solver (numerical_solution.py) applied to the divider's g.    *)
(* A result is [ok |-> TRUE, value |-> coordinate] or, when the solver     *)
(* raises, Raised.  The function f is given as the divider d together with *)
(* the coordinate nudge (or NoCoord): f at nudge is the value of g just    *)
(* below that event, c_j - delta of handle_case_3.                         *)
(***************************************************************************)
NoCoord == -1000

Raised == [ok |-> FALSE, value |-> NoCoord]

Returned(v) == [ok |-> TRUE, value |-> v]

\* quotient rounded to the nearest integer, a half toward zero (den # 0):
\* the whole grid steps of a Newton step fx / fpx
RoundDiv(num, den) ==
    LET n == IF den < 0 THEN -num ELSE num
        q == IF den < 0 THEN -den ELSE den
    IN  IF n >= 0 THEN (2 * n + q - 1) \div (2 * q)
        ELSE -((2 * (-n) + q - 1) \div (2 * q))

\* accumulated perimeter just below the event coord (coord - delta)
query_accumulated_perimeter_below(sp, coord) ==
    LET before == {e \in DOMAIN sp.cumulative_perimeters : e < coord}
    IN  IF before = {} THEN 0
        ELSE LET last_event == CHOOSE e \in before : \A f \in before : f <= e
                 sir == Intersection(
                            StripBox(sp.region, sp.axis, last_event, coord),
                            sp.region)
             IN  sp.cumulative_perimeters[last_event]
                 + SeqSum([i \in DOMAIN sp.obstacles |->
                     AlongEdgeInStrip(sp.region, sp.axis, sir,
                                      OLo(sp.obstacles[i], sp.axis),
                                      sp.obstacles[i])
                     + AlongEdgeInStrip(sp.region, sp.axis, sir,
                                        OHi(sp.obstacles[i], sp.axis),
                                        sp.obstacles[i])])

\* ObstacleAwareDivider.g: WCRT_left - WCRT_right at cut_coord
g(d, cut_coord) ==
    calculate_wcrt_left(d.sp, cut_coord) - calculate_wcrt_right(d.sp, cut_coord)

\* g(c_j - delta): g with the perimeter accumulated just below the event
g_below(d, coord) ==
    calculate_diagonal_at_coordinate(d.sp, coord)
    - calculate_diagonal_right(d.sp, coord)
    + HalfScale * (2 * query_accumulated_perimeter_below(d.sp, coord)
                   - calculate_total_obstacle_perimeter(d.sp))

\* the function handed to the solver
F(d, nudge, c) == IF c = nudge THEN g_below(d, c) ELSE g(d, c)

RECURSIVE BrentLoop(_, _, _, _, _, _)
RECURSIVE BrentStep(_, _, _, _, _, _, _, _)
\* the loop of solve_for_root_brent on the bracket a, b with fa = f(a) and
\* fb = f(b); |fb| <= |fa| on entry.  A step halves the bracket at s, keeps
\* the half with the sign change and swaps so that b is the better end.
BrentLoop(d, nudge, a, b, fa, fb) ==
    IF fb = 0 \/ Abs(b - a) <= 1 THEN b
    ELSE BrentStep(d, nudge, a, b, fa, fb, (a + b) \div 2,
                   F(d, nudge, (a + b) \div 2))

\* one step of the loop, with s the new point and fs = f(s)
BrentStep(d, nudge, a, b, fa, fb, s, fs) ==
    IF Sign(fa) * Sign(fs) < 0
    THEN (IF Abs(fa) < Abs(fs) THEN BrentLoop(d, nudge, s, a, fs, fa)
          ELSE BrentLoop(d, nudge, a, s, fa, fs))
    ELSE (IF Abs(fs) < Abs(fb) THEN BrentLoop(d, nudge, b, s, fb, fs)
          ELSE BrentLoop(d, nudge, s, b, fs, fb))

\* solve_for_root_brent after f(a) and f(b) are computed: raises unless the
\* signs differ, swaps so that |f(b)| <= |f(a)|
BrentStart(d, nudge, a, b, fa, fb) ==
    IF Sign(fa) * Sign(fb) > 0 THEN Raised
    ELSE IF Abs(fa) < Abs(fb) THEN Returned(BrentLoop(d, nudge, b, a, fb, fa))
    ELSE Returned(BrentLoop(d, nudge, a, b, fa, fb))

\* solve_for_root_brent(f, a, b)
solve_for_root_brent(d, nudge, a, b) ==
    BrentStart(d, nudge, a, b, F(d, nudge, a), F(d, nudge, b))

\* number of obstacle edges along the axis that the accumulated perimeter
\* grows with at coord: none below the first cached event, where
\* query_accumulated_perimeter adds no partial strip
EdgesCrossing(sp, coord) ==
    IF \A e \in DOMAIN sp.cumulative_perimeters : coord < e THEN 0
    ELSE SeqSum([i \in DOMAIN sp.obstacles |->
            IF Lo(sp.obstacles[i], sp.axis) <= coord
               /\ coord < Hi(sp.obstacles[i], sp.axis)
            THEN (IF OLo(sp.obstacles[i], sp.axis) = OLo(sp.region, sp.axis)
                     \/ OLo(sp.obstacles[i], sp.axis) = OHi(sp.region, sp.axis)
                  THEN 0 ELSE 1)
                 + (IF OHi(sp.obstacles[i], sp.axis) = OLo(sp.region, sp.axis)
                       \/ OHi(sp.obstacles[i], sp.axis) = OHi(sp.region, sp.axis)
                    THEN 0 ELSE 1)
            ELSE 0])

\* ObstacleAwareDivider.g_prime: the central difference over h = 1e-6 is the
\* slope of g at x, in fixed point: the two diagonal terms and one unit of
\* perimeter per crossing edge
g_prime(d, x) ==
    LET dl == calculate_diagonal_at_coordinate(d.sp, x)
        dr == calculate_diagonal_right(d.sp, x)
    IN  (IF dl = 0 THEN 0
         ELSE ((x - Lo(d.sp.region, d.axis)) * Scale * Scale) \div dl)
        + (IF dr = 0 THEN 0
           ELSE ((Hi(d.sp.region, d.axis) - x) * Scale * Scale) \div dr)
        + Scale * EdgesCrossing(d.sp, x)

\* the iterate after `left` more steps around a cycle of visited iterates
CycleResult(visited, start, left) ==
    visited[start + (left % (Len(visited) - start + 1))]

RECURSIVE NewtonLoop(_, _, _, _)
RECURSIVE NewtonStep(_, _, _, _, _, _, _)
RECURSIVE NewtonMove(_, _, _, _, _)
\* the loop of solve_for_root_newton_raphson; visited is the iterates so far,
\* the current one last
NewtonLoop(d, nudge, visited, iteration) ==
    IF iteration >= NewtonMaxIter THEN Returned(visited[Len(visited)])
    ELSE NewtonStep(d, nudge, visited, iteration, visited[Len(visited)],
                    F(d, nudge, visited[Len(visited)]),
                    g_prime(d, visited[Len(visited)]))

\* one iteration at x with fx = f(x) and fpx = f_prime(x)
NewtonStep(d, nudge, visited, iteration, x, fx, fpx) ==
    IF fx = 0 THEN Returned(x)
    ELSE IF fpx = 0 THEN Raised
    ELSE IF RoundDiv(fx, fpx) = 0 THEN Returned(x)
    ELSE NewtonMove(d, nudge, visited, iteration, x - RoundDiv(fx, fpx))

\* the iteration moves to x_new.  An iterate that repeats closes a cycle,
\* which the remaining iterations walk around.  An iterate farther than
\* NewtonFar from the region is on the flat part of g, where the derivative
\* test raises.
NewtonMove(d, nudge, visited, iteration, x_new) ==
    IF x_new < Lo(d.sp.region, d.axis) - NewtonFar
       \/ x_new > Hi(d.sp.region, d.axis) + NewtonFar
    THEN Raised
    ELSE IF \E i \in DOMAIN visited : visited[i] = x_new
    THEN Returned(CycleResult(visited,
             CHOOSE i \in DOMAIN visited : visited[i] = x_new,
             NewtonMaxIter - (iteration + 1)))
    ELSE NewtonLoop(d, nudge, Append(visited, x_new), iteration + 1)

\* solve_for_root_newton_raphson(f, f_prime, x0)
solve_for_root_newton_raphson(d, nudge, x0) == NewtonLoop(d, nudge, <<x0>>, 0)

\* solve_for_root_with_defensive_newton_rhapson: Newton, Brent if it raises
solve_for_root_with_defensive_newton_rhapson(d, nudge, x0, a, b) ==
    LET r == solve_for_root_newton_raphson(d, nudge, x0)
    IN  IF r.ok THEN r ELSE solve_for_root_brent(d, nudge, a, b)

(***************************************************************************)
(* Obstacle-aware divider (obstacle_aware_divider.py)                      *)
(***************************************************************************)
\* ObstacleAwareDivider.__init__
ObstacleAwareDivider(sp, method) ==
    [sp |-> sp, axis |-> sp.axis, method |-> method,
     P_R |-> calculate_total_obstacle_perimeter(sp)]

RECURSIVE ScanStripsClosest(_, _, _, _)
\* the loop of find_strip_of_interest without the return at the first
\* crossing: the strip with the smallest |WCRT_left - WCRT_right| wins
ScanStripsClosest(d, k, best, min_wcrt_diff) ==
    IF k > Len(d.sp.strips) THEN best
    ELSE LET coord_curr == d.sp.strips[k][2]
             wcrt_diff == Abs(calculate_wcrt_left(d.sp, coord_curr)
                              - calculate_wcrt_right(d.sp, coord_curr))
             better == min_wcrt_diff < 0 \/ wcrt_diff < min_wcrt_diff
         IN  ScanStripsClosest(d, k + 1,
                               IF better THEN k ELSE best,
                               IF better THEN wcrt_diff ELSE min_wcrt_diff)

RECURSIVE ScanStrips(_, _, _, _)
\* the loop of find_strip_of_interest from strip k on; best = 0 is None,
\* min_wcrt_diff = -1 is infinity.  Returns a strip index or 0 (None).
ScanStrips(d, k, best, min_wcrt_diff) ==
    IF k > Len(d.sp.strips) THEN best
    ELSE LET coord_curr == d.sp.strips[k][2]
             P_left_j == query_accumulated_perimeter(d.sp, coord_curr)
             WCRT_left_j == calculate_diagonal_at_coordinate(d.sp, coord_curr)
                            + HalfScale * P_left_j
             WCRT_right_j == calculate_diagonal_right(d.sp, coord_curr)
                             + HalfScale * (d.P_R - P_left_j)
             wcrt_diff == Abs(WCRT_left_j - WCRT_right_j)
             better == min_wcrt_diff < 0 \/ wcrt_diff < min_wcrt_diff
         IN  IF WCRT_left_j > WCRT_right_j THEN k
             ELSE ScanStrips(d, k + 1,
                             IF better THEN k ELSE best,
                             IF better THEN wcrt_diff ELSE min_wcrt_diff)

\* ObstacleAwareDivider.find_strip_of_interest
find_strip_of_interest(d) == ScanStrips(d, 1, 0, -1)

\* ObstacleAwareDivider.get_obstacles_within_strip: the clipped obstacles
\* that meet the strip box (a shared segment counts)
get_obstacles_within_strip(d, k) ==
    LET box == StripBox(d.sp.region, d.axis,
                        d.sp.strips[k][1], d.sp.strips[k][2])
    IN  {Intersection(box, d.sp.obstacles[i]) : i \in DOMAIN d.sp.obstacles}
        \ {r \in {Intersection(box, d.sp.obstacles[i]) :
                    i \in DOMAIN d.sp.obstacles} : IsEmpty(r)}

\* ObstacleAwareDivider.determine_case_for_strip
determine_case_for_strip(d, k) ==
    LET coord_curr == d.sp.strips[k][2]
        obstacle_portions == get_obstacles_within_strip(d, k)
        eff_perim == compute_strip_perimeter(d.sp.region, d.sp.obstacles,
                         d.axis, d.sp.strips[k][1], coord_curr)
    IN  IF obstacle_portions = {} THEN 1
        ELSE IF eff_perim = 0 THEN 1
        ELSE IF \E p \in obstacle_portions :
                    Lo(p, d.axis) = coord_curr \/ Hi(p, d.axis) = coord_curr
             THEN 3
        ELSE 2

\* ObstacleAwareDivider.apply_numerical_method
apply_numerical_method(d, nudge, a, b) ==
    IF d.method = "brent" THEN solve_for_root_brent(d, nudge, a, b)
    ELSE solve_for_root_with_defensive_newton_rhapson(
             d, nudge, (a + b) \div 2, a, b)

\* ObstacleAwareDivider.handle_case_1 and handle_case_2
handle_case_1(d, c_j_minus_1, c_j) ==
    IF Sign(g(d, c_j_minus_1)) * Sign(g(d, c_j)) < 0
    THEN apply_numerical_method(d, NoCoord, c_j_minus_1, c_j)
    ELSE Returned(c_j)

\* handle_case_3 with the solver called whatever the signs are
handle_case_3_unguarded(d, c_j_minus_1, c_j) ==
    apply_numerical_method(d, c_j, c_j_minus_1, c_j)

\* ObstacleAwareDivider.handle_case_3
handle_case_3(d, c_j_minus_1, c_j) ==
    IF g_below(d, c_j) <= 0 THEN Returned(c_j)
    ELSE IF Sign(g(d, c_j_minus_1)) * Sign(g_below(d, c_j)) < 0
    THEN apply_numerical_method(d, c_j, c_j_minus_1, c_j)
    ELSE Returned(c_j)

\* find_optimal_division_point once the strip of interest k is known
HandleStrip(d, k) ==
    IF k = 0 THEN Raised
    ELSE IF determine_case_for_strip(d, k) = 3
    THEN handle_case_3(d, d.sp.strips[k][1], d.sp.strips[k][2])
    ELSE handle_case_1(d, d.sp.strips[k][1], d.sp.strips[k][2])

\* ObstacleAwareDivider.find_optimal_division_point
find_optimal_division_point(d) ==
    HandleStrip(d, find_strip_of_interest(d))

\* the empty geometry
EmptyRect == Rect(1, 1, 0, 0)

\* the dividing polygon between the region bound and the cut: a collapsed
\* ring (cut on the bound) has no area and intersects to nothing
DividingBox(region, axis, bound, cut_coord) ==
    IF cut_coord = bound THEN EmptyRect
    ELSE StripBox(region, axis, Min2(bound, cut_coord), Max2(bound, cut_coord))

\* _extract_polygonal_part over the clipped obstacles, in list order
RECURSIVE ClipObstacles(_, _)
ClipObstacles(obstacles, R) ==
    IF obstacles = <<>> THEN <<>>
    ELSE LET clipped == Intersection(Head(obstacles), R)
         IN  (IF IsPolygonal(clipped) THEN <<clipped>> ELSE <<>>)
             \o ClipObstacles(Tail(obstacles), R)

\* divide_region without the test for an empty side
divide_region_unchecked(d, cut_coord) ==
    [ok |-> TRUE,
     left |-> Intersection(d.sp.region,
                  DividingBox(d.sp.region, d.axis, Lo(d.sp.region, d.axis),
                              cut_coord)),
     left_obs |-> <<>>,
     right |-> Intersection(d.sp.region,
                   DividingBox(d.sp.region, d.axis, Hi(d.sp.region, d.axis),
                               cut_coord)),
     right_obs |-> <<>>]

\* ObstacleAwareDivider.divide_region: [ok, left, left_obs, right, right_obs]
divide_region(d, cut_coord) ==
    LET region == d.sp.region
        R_left == Intersection(region,
                      DividingBox(region, d.axis, Lo(region, d.axis), cut_coord))
        R_right == Intersection(region,
                      DividingBox(region, d.axis, Hi(region, d.axis), cut_coord))
    IN  IF IsEmpty(R_left) \/ IsEmpty(R_right)
        THEN [ok |-> FALSE]
        ELSE [ok |-> TRUE,
              left |-> R_left,
              left_obs |-> ClipObstacles(d.sp.obstacles, R_left),
              right |-> R_right,
              right_obs |-> ClipObstacles(d.sp.obstacles, R_right)]

(***************************************************************************)
(* Optimal axis selection (optimal_axis_selection.py)                      *)
(***************************************************************************)
\* OptimalAxisSelection._square_measure as the fraction n / d
square_measure(polygon) ==
    IF IsEmpty(polygon) THEN [n |-> 1, d |-> 1]
    ELSE IF Width(polygon) = 0 /\ Height(polygon) = 0 THEN [n |-> 1, d |-> 1]
    ELSE IF Width(polygon) = 0 \/ Height(polygon) = 0 THEN [n |-> 0, d |-> 1]
    ELSE [n |-> Width(polygon), d |-> Height(polygon)]

\* OptimalAxisSelection.calculate_squareness_metrics: MSDU as the fraction
\* num / den of 1 / (0.5 * ((sq_left - 1)^2 + (sq_right - 1)^2) + eps);
\* den = 0 is the value 1 / eps, larger than every other MSDU
calculate_squareness_metrics(sq_left, sq_right) ==
    LET al == (sq_left.n - sq_left.d) * (sq_left.n - sq_left.d)
        bl == sq_left.d * sq_left.d
        ar == (sq_right.n - sq_right.d) * (sq_right.n - sq_right.d)
        br == sq_right.d * sq_right.d
    IN  [num |-> 2 * bl * br, den |-> al * br + ar * bl]

\* a > b for two MSDU values
MsduGreater(a, b) == a.num * b.den > b.num * a.den

\* the metrics record evaluate_axis builds from the two sides of the cut
MetricsRecord(axis, division_point, parts, wcrt_left, wcrt_right) ==
    [ok |-> TRUE,
     axis |-> axis,
     NWCRT |-> IF wcrt_left + wcrt_right > 0
               THEN (Abs(wcrt_left - wcrt_right) * NScale)
                    \div (wcrt_left + wcrt_right)
               ELSE 0,
     MSDU |-> calculate_squareness_metrics(square_measure(parts.left),
                                           square_measure(parts.right)),
     division_point |-> division_point,
     subregion_left |-> [region |-> parts.left, obstacles |-> parts.left_obs],
     subregion_right |-> [region |-> parts.right,
                          obstacles |-> parts.right_obs]]

\* evaluate_axis after divide_region returned parts (or raised)
MeasureParts(axis, division_point, parts) ==
    IF ~parts.ok THEN [ok |-> FALSE]
    ELSE MetricsRecord(axis, division_point, parts,
             calculate_region_wcrt(Strip(parts.left, parts.left_obs, axis)),
             calculate_region_wcrt(Strip(parts.right, parts.right_obs, axis)))

\* evaluate_axis after find_optimal_division_point returned (or raised)
DivideAt(divider, division_point) ==
    IF ~division_point.ok THEN [ok |-> FALSE]
    ELSE MeasureParts(divider.axis, division_point.value,
                      divide_region(divider, division_point.value))

\* evaluate_axis with the divider built
EvaluateDivider(divider) ==
    DivideAt(divider, find_optimal_division_point(divider))

\* OptimalAxisSelection.evaluate_axis: the metrics record, or [ok |-> FALSE]
\* when the divider raises
evaluate_axis(region, obstacles, numerical_method, axis) ==
    EvaluateDivider(ObstacleAwareDivider(Strip(region, obstacles, axis),
                                         numerical_method))

\* the choice of select_best_axis with NWCRT and MSDU compared the other way
ChooseAxisReversed(metrics_x, metrics_y) ==
    IF Abs(metrics_x.NWCRT - metrics_y.NWCRT) * TieThresholdInv <= NScale
    THEN IF MsduGreater(metrics_x.MSDU, metrics_y.MSDU)
         THEN metrics_y ELSE metrics_x
    ELSE IF metrics_x.NWCRT < metrics_y.NWCRT
         THEN metrics_y ELSE metrics_x

\* the choice of select_best_axis with x kept when the MSDU values are equal
ChooseAxisTieToX(metrics_x, metrics_y) ==
    IF Abs(metrics_x.NWCRT - metrics_y.NWCRT) * TieThresholdInv <= NScale
    THEN IF MsduGreater(metrics_y.MSDU, metrics_x.MSDU)
         THEN metrics_y ELSE metrics_x
    ELSE IF metrics_x.NWCRT < metrics_y.NWCRT
         THEN metrics_x ELSE metrics_y

\* the tie test and choice of select_best_axis on the two metrics records
ChooseAxis(metrics_x, metrics_y) ==
    IF Abs(metrics_x.NWCRT - metrics_y.NWCRT) * TieThresholdInv <= NScale
    THEN IF MsduGreater(metrics_x.MSDU, metrics_y.MSDU)
         THEN metrics_x ELSE metrics_y
    ELSE IF metrics_x.NWCRT < metrics_y.NWCRT
         THEN metrics_x ELSE metrics_y

\* what select_best_axis returns for the chosen metrics record
SelectionRecord(chosen_metrics, metrics_x, metrics_y) ==
    [ok |-> TRUE,
     best_axis |-> chosen_metrics.axis,
     division_point |-> chosen_metrics.division_point,
     sub_left |-> chosen_metrics.subregion_left,
     sub_right |-> chosen_metrics.subregion_right,
     metrics_x |-> metrics_x,
     metrics_y |-> metrics_y]

\* select_best_axis after both axes are evaluated
SelectFrom(metrics_x, metrics_y) ==
    IF ~metrics_x.ok \/ ~metrics_y.ok THEN [ok |-> FALSE]
    ELSE SelectionRecord(ChooseAxis(metrics_x, metrics_y),
                         metrics_x, metrics_y)

\* OptimalAxisSelection.select_best_axis: [ok, best_axis, division_point,
\* sub_left, sub_right, metrics_x, metrics_y], or [ok |-> FALSE] on a raise
select_best_axis(region, obstacles, numerical_method) ==
    SelectFrom(evaluate_axis(region, obstacles, numerical_method, "x"),
               evaluate_axis(region, obstacles, numerical_method, "y"))

(***************************************************************************)
(* Validity and free space (hierarchical_decomposition_algorithm.py)       *)
(***************************************************************************)
\* the cells cut out of the region by the obstacle coordinates
Cells(region, obstacles) ==
    LET xs == define_events(region, obstacles, "x")
        ys == define_events(region, obstacles, "y")
    IN  {Rect(xs[i], ys[j], xs[i + 1], ys[j + 1]) :
            i \in 1..(Len(xs) - 1), j \in 1..(Len(ys) - 1)}

\* the cells of region.difference(unary_union(obstacles))
FreeCells(region, obstacles) ==
    {c \in Cells(region, obstacles) :
        \A i \in DOMAIN obstacles :
            ~IsPolygonal(Intersection(c, obstacles[i]))}

\* two cells share a boundary segment of positive length
Adjacent(a, b) ==
    \/ /\ (a.maxx = b.minx \/ b.maxx = a.minx)
       /\ Min2(a.maxy, b.maxy) > Max2(a.miny, b.miny)
    \/ /\ (a.maxy = b.miny \/ b.maxy = a.miny)
       /\ Min2(a.maxx, b.maxx) > Max2(a.minx, b.minx)

RECURSIVE Component(_, _)
\* the free cells connected to the cells of S
Component(S, free) ==
    LET more == {c \in free \ S : \E e \in S : Adjacent(c, e)}
    IN  IF more = {} THEN S ELSE Component(S \cup more, free)

RECURSIVE SetArea(_)
SetArea(S) ==
    IF S = {} THEN 0
    ELSE LET c == CHOOSE e \in S : TRUE
         IN  Area(c) + SetArea(S \ {c})

\* HierarchicalDecomposition._compute_largest_free_space
compute_largest_free_space(region, obstacles) ==
    IF ~IsPolygonal(region) THEN 0
    ELSE LET free == FreeCells(region, obstacles)
             areas == {SetArea(Component({c}, free)) : c \in free}
         IN  IF free = {} THEN 0
             ELSE CHOOSE a \in areas : \A b \in areas : b <= a

\* sum(ob.area for ob in obstacles)
ObstacleAreaSum(obstacles) ==
    SeqSum([i \in DOMAIN obstacles |-> Area(obstacles[i])])

\* coverage_ratio >= COVERAGE_RATIO_STOP
CoverageAtLeastStop(region, obstacles) ==
    IF Area(region) > 0
    THEN ObstacleAreaSum(obstacles) * CoverageDen >= CoverageNum * Area(region)
    ELSE TRUE

\* HierarchicalDecomposition._has_single_connected_free_space
has_single_connected_free_space(region, obstacles) ==
    compute_largest_free_space(region, obstacles) >= DRONE_THRESHOLD

\* _is_subregion_valid without its coverage test
is_subregion_valid_without_coverage(cfg, region, obstacles) ==
    IF IsEmpty(region) THEN FALSE
    ELSE IF Width(region) < cfg.min_dimension_threshold
            \/ Height(region) < cfg.min_dimension_threshold THEN FALSE
    ELSE IF ObstacleAreaSum(obstacles) >= Area(region) THEN FALSE
    ELSE IF cfg.check_connectivity
            /\ ~has_single_connected_free_space(region, obstacles) THEN FALSE
    ELSE TRUE

\* HierarchicalDecomposition._is_subregion_valid
is_subregion_valid(cfg, region, obstacles) ==
    IF IsEmpty(region) THEN FALSE
    ELSE IF Width(region) < cfg.min_dimension_threshold
            \/ Height(region) < cfg.min_dimension_threshold THEN FALSE
    ELSE IF ObstacleAreaSum(obstacles) >= Area(region) THEN FALSE
    ELSE IF CoverageAtLeastStop(region, obstacles)
            /\ compute_largest_free_space(region, obstacles) < DRONE_THRESHOLD
         THEN FALSE
    ELSE IF cfg.check_connectivity
            /\ ~has_single_connected_free_space(region, obstacles) THEN FALSE
    ELSE TRUE

(***************************************************************************)
(* Hierarchical decomposition driver                                       *)
(* (hierarchical_decomposition_algorithm.py) as a machine with an explicit *)
(* call stack: one frame per active _decompose or _attempt_partition call. *)
(***************************************************************************)
VARIABLES
    region,            \* self.region: the root region
    obstacles,         \* self.obstacles: the root obstacle list
    cfg,               \* the constructor's options
    partitions,        \* self.partitions
    axis_stack,        \* self.axis_stack
    stack,             \* the active calls, innermost last
    ret,               \* the value returned by the call that ended last
    pc,                \* where run() is: "start", "running", "done"
    attempts,          \* history: every _attempt_partition call made
    failed_nodes,      \* history: every _decompose call that returned false
    run_no,            \* which run() call this is: 1 the first, 2 the one
                       \* on a second object, 3 a second one on the first
    prev_partitions,   \* what the first run() call returned
    selection,         \* what OptimalAxisSelection.select_best_axis returned
    strip_manager,     \* a Strip object
    queried,           \* the last query_accumulated_perimeter call and result
    called,            \* the last call made on another component, with
                       \* what it returned
    db                 \* the rows of the Map and NoFly tables

vars == <<region, obstacles, cfg, partitions, axis_stack, stack, ret, pc,
          attempts, failed_nodes, run_no, prev_partitions, selection,
          strip_manager, queried, called, db>>

\* the variables of the driver
driver_vars == <<partitions, axis_stack, stack, ret, pc, attempts,
                 failed_nodes, run_no, prev_partitions>>

\* the variables of the axis selector and of the strip manager
component_vars == <<selection, strip_manager, queried, called, db>>

Opposite(axis) == IF axis = "x" THEN "y" ELSE "x"

\* self.axis_stack.append(axis)
PushAxis(axes, axis) == Append(axes, axis)

\* _attempt_partition returning without self.axis_stack.pop()
PopAxisSkipped(axes) == axes

\* self.axis_stack.pop()
PopAxis(axes) == SubSeq(axes, 1, Len(axes) - 1)

\* the tuple appended to self.partitions
Record(r, obs, axes, is_valid) ==
    [region |-> r, obstacles |-> obs, axis_history |-> axes, valid |-> is_valid]

\* a _decompose call handed the root's obstacle list instead of its own
DecomposeFrameUnclipped(r, obs, depth) ==
    [kind |-> "decompose", region |-> r, obstacles |-> obstacles,
     depth |-> depth, pc |-> "entry", best_axis |-> "none"]

DecomposeFrame(r, obs, depth) ==
    [kind |-> "decompose", region |-> r, obstacles |-> obs, depth |-> depth,
     pc |-> "entry", best_axis |-> "none"]

AttemptFrame(r, obs, sel, depth) ==
    [kind |-> "attempt", region |-> r, obstacles |-> obs,
     axis |-> sel.best_axis, depth |-> depth,
     division_point |-> sel.division_point,
     subL |-> sel.sub_left, subR |-> sel.sub_right,
     pc |-> "entry", left_ok |-> FALSE, right_ok |-> FALSE,
     produced_any |-> FALSE]

Top == stack[Len(stack)]

Pop == SubSeq(stack, 1, Len(stack) - 1)

\* stack with its innermost frame replaced
SetTop(f) == [stack EXCEPT ![Len(stack)] = f]

\* _decompose without its coverage stop
CoverageStopSkipped(r, obs) == FALSE

\* the coverage stop of _decompose: coverage >= 90% with little free space
CoverageStop(r, obs) ==
    /\ CoverageAtLeastStop(r, obs)
    /\ Area(r) - ObstacleAreaSum(obs) < DRONE_THRESHOLD
    /\ compute_largest_free_space(r, obs) < DRONE_THRESHOLD

\* the depth stop of _decompose with the bound checked one level too late
DepthStopOffByOne(depth) == depth > cfg.max_depth

\* the depth stop of _decompose
DepthStop(depth) == depth >= cfg.max_depth

\* _decompose once select_best_axis returned sel or raised
AttemptWith(sel) ==
    IF ~sel.ok THEN [do |-> "false", why |-> "selection"]
    ELSE [do |-> "attempt", sel |-> sel]

\* _decompose up to its first _attempt_partition call: what it does there
\*   "store_true"  coverage stop: append, return True
\*   "store"       depth stop: append, return the validity
\*   "false"       empty region, invalid region or axis selection raised
\*   "attempt"     call _attempt_partition with the selection sel
decompose_head(r, obs, depth) ==
    IF IsEmpty(r) THEN [do |-> "false", why |-> "empty"]
    ELSE IF CoverageStop(r, obs)
    THEN [do |-> "store_true", is_ok |-> is_subregion_valid(cfg, r, obs)]
    ELSE IF DepthStop(depth)
    THEN [do |-> "store", is_ok |-> is_subregion_valid(cfg, r, obs)]
    ELSE IF ~is_subregion_valid(cfg, r, obs)
    THEN [do |-> "false", why |-> "invalid"]
    ELSE AttemptWith(select_best_axis(r, obs, cfg.numerical_method))

\* the fallback branch of _decompose once the second select_best_axis call
\* returned fb or raised
FallbackWith(f, fb) ==
    IF ~fb.ok THEN [do |-> "return", value |-> FALSE, why |-> "selection"]
    ELSE IF fb.best_axis = f.best_axis
    THEN [do |-> "return", value |-> FALSE, why |-> "partition"]
    ELSE [do |-> "attempt", sel |-> fb]

\* the fallback branch of _decompose returning True once the first attempt
\* has failed and fallback is allowed
after_attempt_fallback_true(f, attempt_ok) ==
    IF attempt_ok \/ cfg.allow_fallback_axis
    THEN [do |-> "return", value |-> TRUE, why |-> "none"]
    ELSE [do |-> "return", value |-> FALSE, why |-> "partition"]

\* _decompose after its first _attempt_partition call returned attempt_ok:
\* return, or call _attempt_partition again with the fallback selection
after_attempt(f, attempt_ok) ==
    IF attempt_ok THEN [do |-> "return", value |-> TRUE, why |-> "none"]
    ELSE IF ~cfg.allow_fallback_axis
    THEN [do |-> "return", value |-> FALSE, why |-> "partition"]
    ELSE FallbackWith(f, select_best_axis(f.region, f.obstacles,
                                          cfg.numerical_method))

\* run() returning self.partitions as it stands
track_back_store_skipped(parts, produced_any_valid) == parts

\* run(): the root is stored in track_back mode when nothing valid came out
track_back_store(parts, produced_any_valid) ==
    IF cfg.mode = "track_back" /\ ~produced_any_valid
    THEN Append(parts, Record(region, obstacles, axis_stack, TRUE))
    ELSE parts

\* the options of a HierarchicalDecomposition
\* (force_depth only with the default validity options)
Configs ==
    {c \in [max_depth : 0..MaxDepthBound,
            numerical_method : {"newton", "brent"},
            min_dimension_threshold : {1, 2},
            check_connectivity : BOOLEAN,
            allow_fallback_axis : {FALSE},
            mode : {"track_back", "force_depth"}] :
        c.mode = "force_depth" =>
            (c.min_dimension_threshold = 1 /\ ~c.check_connectivity)}

\* the root regions the driver runs on
Roots ==
    {Rect(0, 0, w, h) : w \in (MaxSide - 2)..MaxSide,
                        h \in {MaxSide - 2, MaxSide}}

\* obstacle rectangles inside the root r, corners on every second grid line
ObstaclesIn(r) ==
    {o \in [minx : 0..r.maxx, miny : 0..r.maxy,
            maxx : 0..r.maxx, maxy : 0..r.maxy] :
        /\ IsPolygonal(o)
        /\ o.minx % 2 = 0 /\ o.maxx % 2 = 0
        /\ o.miny % 2 = 0 /\ o.maxy % 2 = 0}

\* two obstacles that cover the root r but for one unit square in a corner
DenseObstacles(r) ==
    <<Rect(r.minx, r.miny, r.maxx, r.maxy - 1),
      Rect(r.minx, r.maxy - 1, r.maxx - 1, r.maxy)>>

\* the obstacle lists the driver runs on: none, one obstacle, or the dense
\* pair
ObstacleLists(r) ==
    {<<>>} \cup {<<o>> : o \in ObstaclesIn(r)} \cup {DenseObstacles(r)}

\* no select_best_axis call made, no Strip built, no query made
NoSelection == [done |-> FALSE]

NoStrip == [built |-> FALSE]

NoQuery == [done |-> FALSE]

NoCall == [op |-> "none"]

\* no database is attached
NoDb == [maps |-> {}, noflies |-> {}]

\* HierarchicalDecomposition.__init__
Init ==
    /\ region \in Roots
    /\ obstacles \in ObstacleLists(region)
    /\ cfg \in Configs
    /\ partitions = <<>>
    /\ axis_stack = <<>>
    /\ stack = <<>>
    /\ ret = FALSE
    /\ pc = "start"
    /\ attempts = {}
    /\ failed_nodes = {}
    /\ run_no = 1
    /\ prev_partitions = <<>>
    /\ selection = NoSelection
    /\ strip_manager = NoStrip
    /\ queried = NoQuery
    /\ called = NoCall
    /\ db = NoDb

\* run(): the call self._decompose(self.region, self.obstacles, depth=0)
Run ==
    /\ pc = "start"
    /\ stack' = <<DecomposeFrame(region, obstacles, 0)>>
    /\ pc' = "running"
    /\ UNCHANGED <<region, obstacles, cfg, partitions, axis_stack, ret,
                   attempts, failed_nodes, run_no, prev_partitions,
                   component_vars>>

\* a _decompose call returns v
DecomposeReturns(f, v, why) ==
    /\ stack' = Pop
    /\ ret' = v
    /\ failed_nodes' = IF v THEN failed_nodes
                       ELSE failed_nodes \cup
                            {[region |-> f.region, depth |-> f.depth,
                              first_axis |-> f.best_axis, why |-> why]}

\* the frame f of a _decompose call does what its head h says
DecomposeDo(f, h) ==
    CASE h.do = "store_true" ->
           /\ partitions' = Append(partitions,
                  Record(f.region, f.obstacles, axis_stack, h.is_ok))
           /\ DecomposeReturns(f, TRUE, "none")
           /\ UNCHANGED attempts
      [] h.do = "store" ->
           /\ partitions' = Append(partitions,
                  Record(f.region, f.obstacles, axis_stack, h.is_ok))
           /\ DecomposeReturns(f, h.is_ok, "depth")
           /\ UNCHANGED attempts
      [] h.do = "false" ->
           /\ DecomposeReturns(f, FALSE, h.why)
           /\ UNCHANGED <<partitions, attempts, db>>
      [] h.do = "attempt" ->
           /\ stack' = Append(
                  SetTop([f EXCEPT !.pc = "after_first",
                                   !.best_axis = h.sel.best_axis]),
                  AttemptFrame(f.region, f.obstacles, h.sel, f.depth))
           /\ attempts' = attempts \cup
                  {[region |-> f.region, depth |-> f.depth,
                    axis |-> h.sel.best_axis]}
           /\ UNCHANGED <<partitions, ret, failed_nodes, db>>

\* _decompose from its entry to its first call or return
DecomposeEntry ==
    /\ pc = "running" /\ stack # <<>>
    /\ Top.kind = "decompose" /\ Top.pc = "entry"
    /\ DecomposeDo(Top, decompose_head(Top.region, Top.obstacles, Top.depth))
    /\ UNCHANGED <<region, obstacles, cfg, axis_stack, pc, run_no,
                   prev_partitions, component_vars>>

\* the frame f of a _decompose call returns or makes the fallback attempt
ResumeDo(f, a) ==
    IF a.do = "return"
    THEN /\ DecomposeReturns(f, a.value, a.why)
         /\ UNCHANGED attempts
    ELSE /\ stack' = Append(
                SetTop([f EXCEPT !.pc = "after_fallback"]),
                AttemptFrame(f.region, f.obstacles, a.sel, f.depth))
         /\ attempts' = attempts \cup
                {[region |-> f.region, depth |-> f.depth,
                  axis |-> a.sel.best_axis]}
         /\ UNCHANGED <<ret, failed_nodes, db>>

\* _decompose after an _attempt_partition call returned: the first attempt's
\* result goes through the fallback branch, the fallback attempt's result is
\* returned as it is
DecomposeResume ==
    /\ pc = "running" /\ stack # <<>>
    /\ Top.kind = "decompose" /\ Top.pc \in {"after_first", "after_fallback"}
    /\ ResumeDo(Top, IF Top.pc = "after_fallback"
                     THEN [do |-> "return", value |-> ret, why |-> "fallback"]
                     ELSE after_attempt(Top, ret))
    /\ UNCHANGED <<region, obstacles, cfg, partitions, axis_stack, pc, run_no,
                   prev_partitions, component_vars>>

\* the degenerate-cut guard of _attempt_partition
DegenerateCut(f) ==
    \/ f.division_point <= Lo(f.region, f.axis)
    \/ f.division_point >= Hi(f.region, f.axis)

\* an _attempt_partition call returns v: axis_stack.pop()
AttemptReturns(v) ==
    /\ stack' = Pop
    /\ ret' = v
    /\ axis_stack' = PopAxis(axis_stack)

\* _attempt_partition from its entry to its first recursive call or return
AttemptEntry ==
    /\ pc = "running" /\ stack # <<>>
    /\ Top.kind = "attempt" /\ Top.pc = "entry"
    /\ LET f == Top
           left_ok == is_subregion_valid(cfg, f.subL.region, f.subL.obstacles)
           right_ok == is_subregion_valid(cfg, f.subR.region, f.subR.obstacles)
       IN  IF DegenerateCut(f) \/ (~left_ok /\ ~right_ok)
           THEN /\ stack' = Pop
                /\ ret' = FALSE
                /\ axis_stack' = PopAxis(PushAxis(axis_stack, f.axis))
           ELSE /\ axis_stack' = PushAxis(axis_stack, f.axis)
                /\ ret' = ret
                /\ stack' = Append(
                       SetTop([f EXCEPT !.left_ok = left_ok,
                                        !.right_ok = right_ok,
                                        !.pc = IF left_ok THEN "after_left"
                                               ELSE "after_right"]),
                       IF left_ok
                       THEN DecomposeFrame(f.subL.region, f.subL.obstacles,
                                           f.depth + 1)
                       ELSE DecomposeFrame(f.subR.region, f.subR.obstacles,
                                           f.depth + 1))
    /\ UNCHANGED <<region, obstacles, cfg, partitions, pc, attempts,
                   failed_nodes, run_no, prev_partitions, component_vars>>

\* _attempt_partition after a recursive _decompose call returned
AttemptResume ==
    /\ pc = "running" /\ stack # <<>>
    /\ Top.kind = "attempt" /\ Top.pc \in {"after_left", "after_right"}
    /\ LET f == Top
           produced_any == f.produced_any \/ ret
       IN  IF f.pc = "after_left" /\ f.right_ok
           THEN /\ stack' = Append(
                       SetTop([f EXCEPT !.produced_any = produced_any,
                                        !.pc = "after_right"]),
                       DecomposeFrame(f.subR.region, f.subR.obstacles,
                                      f.depth + 1))
                /\ UNCHANGED <<ret, axis_stack, db>>
           ELSE AttemptReturns(produced_any)
    /\ UNCHANGED <<region, obstacles, cfg, partitions, pc, attempts,
                   failed_nodes, run_no, prev_partitions, component_vars>>

\* run() after the top-level _decompose returned: the track-back store
RunReturn ==
    /\ pc = "running" /\ stack = <<>>
    /\ partitions' = track_back_store(partitions, ret)
    /\ pc' = "done"
    /\ UNCHANGED <<region, obstacles, cfg, axis_stack, stack, ret, attempts,
                   failed_nodes, run_no, prev_partitions, component_vars>>

\* a second driver object on the same inputs, with allow_fallback_axis=True
RunWithFallback ==
    /\ pc = "done" /\ run_no = 1
    /\ prev_partitions' = partitions
    /\ cfg' = [cfg EXCEPT !.allow_fallback_axis = TRUE]
    /\ partitions' = <<>>
    /\ axis_stack' = <<>>
    /\ stack' = <<>>
    /\ ret' = FALSE
    /\ pc' = "start"
    /\ attempts' = {}
    /\ failed_nodes' = {}
    /\ run_no' = 2
    /\ UNCHANGED <<region, obstacles, component_vars>>

\* run() called again on the same driver object: self.partitions and
\* self.axis_stack are what the first call left
RunAgain ==
    /\ pc = "done" /\ run_no = 1
    /\ prev_partitions' = partitions
    /\ stack' = <<>>
    /\ ret' = FALSE
    /\ pc' = "start"
    /\ attempts' = {}
    /\ failed_nodes' = {}
    /\ run_no' = 3
    /\ UNCHANGED <<region, obstacles, cfg, partitions, axis_stack,
                   component_vars>>

Next ==
    \/ Run
    \/ DecomposeEntry
    \/ DecomposeResume
    \/ AttemptEntry
    \/ AttemptResume
    \/ RunReturn
    \/ RunWithFallback
    \/ RunAgain

Spec == Init /\ [][Next]_vars

(***************************************************************************)
(* The axis selector on its own: an OptimalAxisSelection object is built   *)
(* on a region and an obstacle list and select_best_axis is called once.   *)
(* The rectangles of the model do not give every pair of metrics that      *)
(* evaluate_axis can return on a polygon (two axes with the same MSDU, for *)
(* one), so the choice between the axes is also run on metrics records     *)
(* drawn from samples.                                                     *)
(***************************************************************************)
\* the driver is not running
DriverIdle ==
    /\ partitions = <<>>
    /\ axis_stack = <<>>
    /\ stack = <<>>
    /\ ret = FALSE
    /\ pc = "idle"
    /\ attempts = {}
    /\ failed_nodes = {}
    /\ run_no = 0
    /\ prev_partitions = <<>>

\* the regions the selector runs on
AxisRoots ==
    {Rect(0, 0, w, MaxAxisSide) : w \in (MaxAxisSide - 3)..MaxAxisSide}

\* OptimalAxisSelection.__init__
InitAxis ==
    /\ region \in AxisRoots
    /\ obstacles \in ObstacleLists(region)
    /\ cfg \in {c \in Configs : /\ c.max_depth = 0
                                /\ c.mode = "track_back"
                                /\ c.min_dimension_threshold = 1
                                /\ ~c.check_connectivity}
    /\ DriverIdle
    /\ selection = NoSelection
    /\ strip_manager = NoStrip
    /\ queried = NoQuery
    /\ called = NoCall
    /\ db = NoDb

\* NWCRT values around the tie threshold, and MSDU values some of which
\* are equal as numbers
NwcrtSamples == {0, NScale \div TieThresholdInv,
                 NScale \div TieThresholdInv + 1, (3 * NScale) \div TieThresholdInv}

MsduSamples ==
    {[num |-> 1, den |-> 1], [num |-> 2, den |-> 1], [num |-> 4, den |-> 2],
     [num |-> 2, den |-> 0]}

\* metrics records evaluate_axis may return for the axis: the region cut in
\* the middle, any sampled NWCRT and MSDU
MetricsSamples(axis) ==
    {[ok |-> TRUE,
      axis |-> axis,
      NWCRT |-> n,
      MSDU |-> m,
      division_point |-> (Lo(region, axis) + Hi(region, axis)) \div 2,
      subregion_left |->
          [region |-> Intersection(region,
               DividingBox(region, axis, Lo(region, axis),
                           (Lo(region, axis) + Hi(region, axis)) \div 2)),
           obstacles |-> <<>>],
      subregion_right |->
          [region |-> Intersection(region,
               DividingBox(region, axis, Hi(region, axis),
                           (Lo(region, axis) + Hi(region, axis)) \div 2)),
           obstacles |-> <<>>]] : n \in NwcrtSamples, m \in MsduSamples}

\* a call of select_best_axis
SelectBestAxis ==
    /\ ~selection.done
    /\ selection' = [done |-> TRUE, evaluated |-> TRUE,
                     result |-> select_best_axis(region, obstacles,
                                                 cfg.numerical_method)]
    /\ UNCHANGED <<region, obstacles, cfg, driver_vars, strip_manager,
                   queried, called, db>>

\* select_best_axis from the point where both evaluate_axis calls have
\* returned, on sampled metrics
SelectOnMetrics ==
    /\ ~selection.done
    /\ obstacles = <<>>
    /\ \E metrics_x \in MetricsSamples("x"), metrics_y \in MetricsSamples("y") :
           selection' = [done |-> TRUE, evaluated |-> FALSE,
                         result |-> SelectFrom(metrics_x, metrics_y)]
    /\ UNCHANGED <<region, obstacles, cfg, driver_vars, strip_manager,
                   queried, called, db>>

NextAxis ==
    \/ SelectBestAxis
    \/ SelectOnMetrics

SpecAxis == InitAxis /\ [][NextAxis]_vars

(***************************************************************************)
(* The strip manager on its own: a Strip object is built on a region, an   *)
(* obstacle list and an axis, and query_accumulated_perimeter is called.   *)
(***************************************************************************)
\* the region the strip manager is built on
StripRegion == Rect(0, 0, MaxStripSide, MaxStripSide)

\* the obstacle rectangles inside r, corners on any grid line
AnyObstaclesIn(r) ==
    {o \in [minx : r.minx..r.maxx, miny : r.miny..r.maxy,
            maxx : r.minx..r.maxx, maxy : r.miny..r.maxy] : IsPolygonal(o)}

\* a before b in the order of their corners
CornerOrder(a, b) ==
    \/ a.minx < b.minx
    \/ a.minx = b.minx /\ a.miny < b.miny
    \/ a.minx = b.minx /\ a.miny = b.miny /\ a.maxx < b.maxx
    \/ a.minx = b.minx /\ a.miny = b.miny /\ a.maxx = b.maxx
       /\ a.maxy < b.maxy

\* the obstacle lists the strip manager is built on: up to two obstacles
\* with disjoint interiors (obstacles that overlap are merged before)
StripObstacleLists(r) ==
    {<<>>} \cup {<<o>> : o \in AnyObstaclesIn(r)}
    \cup {p \in AnyObstaclesIn(r) \X AnyObstaclesIn(r) :
                /\ CornerOrder(p[1], p[2])
                /\ ~IsPolygonal(Intersection(p[1], p[2]))}

\* Strip.__init__
InitStrip ==
    /\ region = StripRegion
    /\ obstacles \in StripObstacleLists(region)
    /\ cfg \in {c \in Configs : /\ c.max_depth = 0
                                /\ c.mode = "track_back"
                                /\ c.numerical_method = "newton"
                                /\ c.min_dimension_threshold = 1
                                /\ ~c.check_connectivity}
    /\ DriverIdle
    /\ selection = NoSelection
    /\ strip_manager \in {Strip(region, obstacles, axis) : axis \in {"x", "y"}}
    /\ queried = NoQuery
    /\ called = NoCall
    /\ db = NoDb

\* a call of query_accumulated_perimeter(coord)
Query ==
    /\ \E coord \in Lo(region, strip_manager.axis)
                       ..Hi(region, strip_manager.axis) :
           queried' = [done |-> TRUE, coord |-> coord,
                       value |-> query_accumulated_perimeter(strip_manager,
                                                             coord)]
    /\ UNCHANGED <<region, obstacles, cfg, driver_vars, selection,
                   strip_manager, called, db>>

\* query_accumulated_perimeter at coord and just below it (coord - delta)
QueryAround ==
    /\ called = NoCall
    /\ \E coord \in Lo(region, strip_manager.axis)
                       ..Hi(region, strip_manager.axis) :
           called' = [op |-> "query_accumulated_perimeter", coord |-> coord,
                      at |-> query_accumulated_perimeter(strip_manager, coord),
                      below |-> query_accumulated_perimeter_below(
                                    strip_manager, coord)]
    /\ UNCHANGED <<region, obstacles, cfg, driver_vars, selection,
                   strip_manager, queried, db>>

NextStrip ==
    \/ Query
    \/ QueryAround

SpecStrip == InitStrip /\ [][NextStrip]_vars

(***************************************************************************)
(* The divider and the solver on their own: an ObstacleAwareDivider is     *)
(* built on a Strip object and one of its methods, or the Brent solver on  *)
(* its function g, is called.                                              *)
(***************************************************************************)
\* the regions the divider is built on
DividerRegions ==
    {Rect(0, 0, MaxDividerSide, h) : h \in {MaxDividerSide, MaxDividerSide + 1}}

\* Strip.__init__ and ObstacleAwareDivider.__init__
InitDivider ==
    /\ region \in DividerRegions
    /\ obstacles \in StripObstacleLists(region)
    /\ cfg \in {c \in Configs : /\ c.max_depth = 0
                                /\ c.mode = "track_back"
                                /\ c.min_dimension_threshold = 1
                                /\ ~c.check_connectivity}
    /\ DriverIdle
    /\ selection = NoSelection
    /\ strip_manager \in {Strip(region, obstacles, axis) : axis \in {"x", "y"}}
    /\ queried = NoQuery
    /\ called = NoCall
    /\ db = NoDb

\* the divider built on the Strip object
Divider == ObstacleAwareDivider(strip_manager, cfg.numerical_method)

\* a call of find_strip_of_interest
FindStrip ==
    /\ called = NoCall
    /\ called' = [op |-> "find_strip_of_interest",
                  k |-> find_strip_of_interest(Divider)]
    /\ UNCHANGED <<region, obstacles, cfg, driver_vars, selection,
                   strip_manager, queried, db>>

\* a call of find_optimal_division_point
FindPoint ==
    /\ called = NoCall
    /\ called' = [op |-> "find_optimal_division_point",
                  k |-> find_strip_of_interest(Divider),
                  result |-> find_optimal_division_point(Divider)]
    /\ UNCHANGED <<region, obstacles, cfg, driver_vars, selection,
                   strip_manager, queried, db>>

\* a call of divide_region(cut_coord), the cut within or next to the region
DivideRegion ==
    /\ called = NoCall
    /\ \E cut_coord \in (Lo(region, strip_manager.axis) - 1)
                           ..(Hi(region, strip_manager.axis) + 1) :
           called' = [op |-> "divide_region", cut_coord |-> cut_coord,
                      result |-> divide_region(Divider, cut_coord)]
    /\ UNCHANGED <<region, obstacles, cfg, driver_vars, selection,
                   strip_manager, queried, db>>

\* a call of solve_for_root_brent(g, a, b)
BrentCall ==
    /\ called = NoCall
    /\ \E a, b \in Lo(region, strip_manager.axis)
                      ..Hi(region, strip_manager.axis) :
           /\ a < b
           /\ called' = [op |-> "solve_for_root_brent", a |-> a, b |-> b,
                         fa |-> g(Divider, a), fb |-> g(Divider, b),
                         result |-> solve_for_root_brent(Divider, NoCoord,
                                                         a, b)]
    /\ UNCHANGED <<region, obstacles, cfg, driver_vars, selection,
                   strip_manager, queried, db>>

NextDivider ==
    \/ FindStrip
    \/ FindPoint
    \/ DivideRegion
    \/ BrentCall

SpecDivider == InitDivider /\ [][NextDivider]_vars

(***************************************************************************)
(* The Newton solver on the divider's g at sub-grid resolution             *)
(* (numerical_solution.py, obstacle_aware_divider.py).  A cut coordinate   *)
(* x counts sub-grid steps, Sub to the grid unit; a value of g counts half *)
(* sub-grid steps and a slope counts 1/SlopeScale.  An iterate that lands  *)
(* on an event, where g jumps, cannot be placed on one side of it at this  *)
(* resolution: the call is then not resolved and is left out.              *)
(***************************************************************************)
SubReturned(v) == [ok |-> TRUE, value |-> v, resolved |-> TRUE]

SubRaised == [ok |-> FALSE, value |-> NoCoord, resolved |-> TRUE]

Unresolved == [ok |-> FALSE, value |-> NoCoord, resolved |-> FALSE]

\* num / den to the nearest integer (den > 0)
RoundNearest(num, den) ==
    (num \div den) + (IF 2 * (num % den) >= den THEN 1 ELSE 0)

\* the sub-grid coordinate x is an event of the strip manager
OnEvent(sp, x) ==
    /\ x % Sub = 0
    /\ \E i \in DOMAIN sp.events : sp.events[i] = x \div Sub

\* Strip.query_accumulated_perimeter at x past the cached event last_event:
\* the cached value and the partial strip from last_event to x
PerimeterFromEvent(sp, x, last_event) ==
    sp.cumulative_perimeters[last_event] * Sub
    + EdgesCrossing(sp, last_event) * (x - last_event * Sub)

\* Strip.query_accumulated_perimeter at the sub-grid coordinate x
query_accumulated_perimeter_sub(sp, x) ==
    IF \A e \in DOMAIN sp.cumulative_perimeters : x < e * Sub THEN 0
    ELSE PerimeterFromEvent(sp, x,
             CHOOSE e \in DOMAIN sp.cumulative_perimeters :
                 /\ e * Sub <= x
                 /\ \A f \in DOMAIN sp.cumulative_perimeters :
                        f * Sub <= x => f <= e)

\* ObstacleAwareDivider.g at the sub-grid coordinate x, in half steps:
\* 2 * (WCRT_left - WCRT_right)
g_sub(d, x) ==
    2 * Isqrt((x - Lo(d.sp.region, d.axis) * Sub)
                  * (x - Lo(d.sp.region, d.axis) * Sub)
              + OrthExtent(d.sp) * Sub * OrthExtent(d.sp) * Sub)
    - 2 * Isqrt((Hi(d.sp.region, d.axis) * Sub - x)
                    * (Hi(d.sp.region, d.axis) * Sub - x)
                + OrthExtent(d.sp) * Sub * OrthExtent(d.sp) * Sub)
    + 2 * query_accumulated_perimeter_sub(d.sp, x)
    - calculate_total_obstacle_perimeter(d.sp) * Sub

\* ObstacleAwareDivider.g_prime off the events: the slope of g at x
g_prime_sub(d, x) ==
    ((x - Lo(d.sp.region, d.axis) * Sub) * SlopeScale)
        \div Isqrt((x - Lo(d.sp.region, d.axis) * Sub)
                       * (x - Lo(d.sp.region, d.axis) * Sub)
                   + OrthExtent(d.sp) * Sub * OrthExtent(d.sp) * Sub)
    + ((Hi(d.sp.region, d.axis) * Sub - x) * SlopeScale)
          \div Isqrt((Hi(d.sp.region, d.axis) * Sub - x)
                         * (Hi(d.sp.region, d.axis) * Sub - x)
                     + OrthExtent(d.sp) * Sub * OrthExtent(d.sp) * Sub)
    + SlopeScale * EdgesCrossing(d.sp, x \div Sub)

RECURSIVE NewtonSubLoop(_, _, _)
RECURSIVE NewtonSubStep(_, _, _, _, _, _)
RECURSIVE NewtonSubMove(_, _, _, _)
\* the loop of solve_for_root_newton_raphson; visited is the iterates so
\* far, the current one last
NewtonSubLoop(d, visited, iteration) ==
    IF iteration >= NewtonMaxIter THEN SubReturned(visited[Len(visited)])
    ELSE IF OnEvent(d.sp, visited[Len(visited)]) THEN Unresolved
    ELSE NewtonSubStep(d, visited, iteration, visited[Len(visited)],
                       g_sub(d, visited[Len(visited)]),
                       g_prime_sub(d, visited[Len(visited)]))

\* one iteration at x with fx = f(x) and fpx = f_prime(x): converged on
\* f(x), raise on a zero derivative, converged on the step, or move
NewtonSubStep(d, visited, iteration, x, fx, fpx) ==
    IF fx = 0 THEN SubReturned(x)
    ELSE IF fpx <= 0 THEN SubRaised
    ELSE IF RoundNearest(fx * SlopeScale, 2 * fpx) = 0 THEN SubReturned(x)
    ELSE NewtonSubMove(d, visited, iteration,
                       x - RoundNearest(fx * SlopeScale, 2 * fpx))

\* the iteration moves to x_new; nothing in the code keeps it in a
\* bracket.  An iterate that repeats closes a cycle, which the remaining
\* iterations walk around.
NewtonSubMove(d, visited, iteration, x_new) ==
    IF x_new < (Lo(d.sp.region, d.axis) - SolverFar) * Sub
       \/ x_new > (Hi(d.sp.region, d.axis) + SolverFar) * Sub
    THEN Unresolved
    ELSE IF \E i \in DOMAIN visited : visited[i] = x_new
    THEN SubReturned(CycleResult(visited,
             CHOOSE i \in DOMAIN visited : visited[i] = x_new,
             NewtonMaxIter - (iteration + 1)))
    ELSE NewtonSubLoop(d, Append(visited, x_new), iteration + 1)

\* solve_for_root_newton_raphson(g, g_prime, x0)
solve_for_root_newton_raphson_sub(d, x0) == NewtonSubLoop(d, <<x0>>, 0)

\* solve_for_root_brent(g, a, b), its result in sub-grid steps
solve_for_root_brent_sub(d, nudge, a, b) ==
    IF solve_for_root_brent(d, nudge, a, b).ok
    THEN SubReturned(solve_for_root_brent(d, nudge, a, b).value * Sub)
    ELSE SubRaised

\* solve_for_root_with_defensive_newton_rhapson once Newton returned r
DefensiveSub(d, nudge, a, b, r) ==
    IF r.resolved /\ ~r.ok THEN solve_for_root_brent_sub(d, nudge, a, b)
    ELSE r

\* ObstacleAwareDivider.apply_numerical_method on the bracket [a, b] (the
\* upper end is b - delta when nudge = b); Newton starts at the midpoint
apply_numerical_method_sub(d, nudge, a, b) ==
    IF d.method = "brent" THEN solve_for_root_brent_sub(d, nudge, a, b)
    ELSE DefensiveSub(d, nudge, a, b,
             solve_for_root_newton_raphson_sub(d, (a + b) * (Sub \div 2)))

\* handle_case_1, handle_case_2 and handle_case_3 on the strip [a, b]
HandleCaseSub(d, case, a, b) ==
    IF case = 3
    THEN (IF g_below(d, b) <= 0 THEN SubReturned(b * Sub)
          ELSE IF Sign(g(d, a)) * Sign(g_below(d, b)) < 0
          THEN apply_numerical_method_sub(d, b, a, b)
          ELSE SubReturned(b * Sub))
    ELSE (IF Sign(g(d, a)) * Sign(g(d, b)) < 0
          THEN apply_numerical_method_sub(d, NoCoord, a, b)
          ELSE SubReturned(b * Sub))

\* ObstacleAwareDivider.find_optimal_division_point with the strip of
\* interest k
find_optimal_division_point_sub(d, k) ==
    IF k = 0 THEN SubRaised
    ELSE HandleCaseSub(d, determine_case_for_strip(d, k),
                       d.sp.strips[k][1], d.sp.strips[k][2])

\* the regions the solver is followed on
SolverRegions == {Rect(0, 0, MaxSolverSide, MaxSolverSide - 1)}

\* two obstacles of one height standing side by side on the region's lower
\* bound along the axis, apart from each other
SolverObstacleLists(r, axis) ==
    {IF axis = "x"
     THEN <<Rect(c[1], r.miny, c[2], r.miny + h),
            Rect(c[3], r.miny, c[4], r.miny + h)>>
     ELSE <<Rect(r.minx, c[1], r.minx + h, c[2]),
            Rect(r.minx, c[3], r.minx + h, c[4])>> :
        c \in {q \in [1..4 -> Lo(r, axis)..Hi(r, axis)] :
                  q[1] < q[2] /\ q[2] < q[3] /\ q[3] < q[4]},
        h \in {OHi(r, axis) - OLo(r, axis) - 2,
               OHi(r, axis) - OLo(r, axis) - 1}}

\* Strip.__init__ and ObstacleAwareDivider.__init__ with either method
InitSolver ==
    /\ region \in SolverRegions
    /\ cfg \in {c \in Configs : /\ c.max_depth = 0
                                /\ c.mode = "track_back"
                                /\ c.min_dimension_threshold = 1
                                /\ ~c.check_connectivity}
    /\ \E axis \in {"x", "y"} :
           /\ obstacles \in SolverObstacleLists(region, axis)
           /\ strip_manager = Strip(region, obstacles, axis)
    /\ DriverIdle
    /\ selection = NoSelection
    /\ queried = NoQuery
    /\ called = NoCall
    /\ db = NoDb

\* a call of find_optimal_division_point that this resolution resolves
SolverFindPoint ==
    /\ called = NoCall
    /\ find_optimal_division_point_sub(Divider,
           find_strip_of_interest(Divider)).resolved
    /\ called' = [op |-> "find_optimal_division_point",
                  k |-> find_strip_of_interest(Divider),
                  result |-> find_optimal_division_point_sub(Divider,
                                 find_strip_of_interest(Divider))]
    /\ UNCHANGED <<region, obstacles, cfg, driver_vars, selection,
                   strip_manager, queried, db>>

NextSolver == SolverFindPoint

SpecSolver == InitSolver /\ [][NextSolver]_vars

(***************************************************************************)
(* The case of a strip (obstacle_aware_divider.py) for obstacles that are  *)
(* not all rectangles: an obstacle is the ring of its vertices, a          *)
(* rectangle or a right triangle (a rectangle less one corner), so that an *)
(* event can come from a vertex no edge along the sweepline ends at.       *)
(***************************************************************************)
\* the exterior ring of a rectangle, or of the triangle left without its
\* corner number skip (0: none is left out)
Ring(r, skip) ==
    SelectSeq(<<[p |-> <<r.minx, r.miny>>, n |-> 1],
                [p |-> <<r.maxx, r.miny>>, n |-> 2],
                [p |-> <<r.maxx, r.maxy>>, n |-> 3],
                [p |-> <<r.minx, r.maxy>>, n |-> 4]>>,
              LAMBDA v : v.n # skip)

\* the coordinate of a vertex along the axis
Along(v, axis) == IF axis = "x" THEN v.p[1] ELSE v.p[2]

\* the edges of a ring, as pairs of vertices
RingEdges(ring) ==
    {<<ring[i], ring[(i % Len(ring)) + 1]>> : i \in DOMAIN ring}

\* Strip.define_events on rings
ring_events(r, rings, axis) ==
    {Lo(r, axis), Hi(r, axis)}
        \cup UNION {{Along(rings[i][j], axis) : j \in DOMAIN rings[i]} :
                      i \in DOMAIN rings}

\* Strip.create_strips on rings: the pairs of consecutive events
ring_strips(r, rings, axis) ==
    {s \in ring_events(r, rings, axis) \X ring_events(r, rings, axis) :
        /\ s[1] < s[2]
        /\ \A e \in ring_events(r, rings, axis) : ~(s[1] < e /\ e < s[2])}

\* Strip.compute_strip_perimeter(strip) >= 1e-9 on rings: some edge has a
\* piece of positive length in the strip that is neither on the region
\* boundary nor collinear with coord_prev
ring_strip_perimeter(r, rings, axis, coord_prev, coord_curr) ==
    \E i \in DOMAIN rings : \E e \in RingEdges(rings[i]) :
        IF Along(e[1], axis) = Along(e[2], axis)
        THEN /\ coord_prev < Along(e[1], axis)
             /\ Along(e[1], axis) <= coord_curr
             /\ Along(e[1], axis) \notin {Lo(r, axis), Hi(r, axis)}
        ELSE /\ Max2(Along(e[1], axis), Along(e[2], axis)) > coord_prev
             /\ Min2(Along(e[1], axis), Along(e[2], axis)) < coord_curr
             /\ ~(/\ Along(e[1], Opposite(axis)) = Along(e[2], Opposite(axis))
                  /\ Along(e[1], Opposite(axis))
                         \in {OLo(r, axis), OHi(r, axis)})

\* ObstacleAwareDivider.get_obstacles_within_strip on rings: the rings
\* whose intersection with the strip is not empty
ring_obstacles_within_strip(rings, axis, coord_prev, coord_curr) ==
    {i \in DOMAIN rings :
        /\ \E e \in RingEdges(rings[i]) : Along(e[1], axis) <= coord_curr
        /\ \E e \in RingEdges(rings[i]) : Along(e[1], axis) >= coord_prev}

\* the intersection of a ring with the strip has an edge on the sweepline
\* at coord_curr: the ring crosses the sweepline there, or has an edge on it
PortionEdgeOnSweepline(ring, axis, coord_curr) ==
    \/ /\ \E e \in RingEdges(ring) : Along(e[1], axis) < coord_curr
       /\ \E e \in RingEdges(ring) : Along(e[1], axis) > coord_curr
    \/ \E e \in RingEdges(ring) :
           Along(e[1], axis) = coord_curr /\ Along(e[2], axis) = coord_curr

\* ObstacleAwareDivider.determine_case_for_strip on rings
ring_case_for_strip(r, rings, axis, coord_prev, coord_curr) ==
    IF ring_obstacles_within_strip(rings, axis, coord_prev, coord_curr) = {}
    THEN 1
    ELSE IF ~ring_strip_perimeter(r, rings, axis, coord_prev, coord_curr)
    THEN 1
    ELSE IF \E i \in ring_obstacles_within_strip(rings, axis,
                                                  coord_prev, coord_curr) :
                PortionEdgeOnSweepline(rings[i], axis, coord_curr)
    THEN 3
    ELSE 2

\* a region with one or two obstacle rings whose boxes do not overlap
InitCase ==
    /\ region = StripRegion
    /\ obstacles \in
           {<<Ring(o, k)>> : o \in AnyObstaclesIn(region), k \in 0..4}
           \cup {<<Ring(p[1], k), Ring(p[2], 0)>> :
                    p \in {q \in AnyObstaclesIn(region)
                                     \X AnyObstaclesIn(region) :
                              ~IsPolygonal(Intersection(q[1], q[2]))},
                    k \in 0..4}
    /\ cfg \in {c \in Configs : /\ c.max_depth = 0
                                /\ c.mode = "track_back"
                                /\ c.numerical_method = "newton"
                                /\ c.min_dimension_threshold = 1
                                /\ ~c.check_connectivity}
    /\ DriverIdle
    /\ selection = NoSelection
    /\ strip_manager = NoStrip
    /\ queried = NoQuery
    /\ called = NoCall
    /\ db = NoDb

\* determine_case_for_strip on a strip of the strip manager of an axis
DetermineCase ==
    /\ called = NoCall
    /\ \E axis \in {"x", "y"} :
       \E strip \in ring_strips(region, obstacles, axis) :
           called' = [op |-> "determine_case_for_strip", axis |-> axis,
                      coord_prev |-> strip[1], coord_curr |-> strip[2],
                      case |-> ring_case_for_strip(region, obstacles, axis,
                                                   strip[1], strip[2])]
    /\ UNCHANGED <<region, obstacles, cfg, driver_vars, selection,
                   strip_manager, queried, db>>

NextCase == DetermineCase

SpecCase == InitCase /\ [][NextCase]_vars

(***************************************************************************)
(* The advanced checks of the two KD-tree drivers                          *)
(* (kd_tree_naive_decomposition.py, kd_tree_perimeter_decomposition.py),   *)
(* applied next to the hierarchical driver's on one region and obstacles.  *)
(***************************************************************************)
\* NaiveKDTreePartitioning._check_coverage_and_stop: the largest hole is
\* looked at once the coverage reaches the stop ratio
kd_naive_check_coverage_and_stop(r, obs) ==
    IF CoverageAtLeastStop(r, obs)
    THEN /\ Area(r) - ObstacleAreaSum(obs) < DRONE_THRESHOLD
         /\ compute_largest_free_space(r, obs) < DRONE_THRESHOLD
    ELSE FALSE

\* KDTreePartitioning._check_coverage_and_stop
kd_perimeter_check_coverage_and_stop(r, obs) ==
    /\ CoverageAtLeastStop(r, obs)
    /\ Area(r) - ObstacleAreaSum(obs) < DRONE_THRESHOLD
    /\ compute_largest_free_space(r, obs) < DRONE_THRESHOLD

\* NaiveKDTreePartitioning._is_subregion_valid
kd_naive_is_subregion_valid(min_area_threshold, check_connectivity, r, obs) ==
    IF IsEmpty(r) THEN FALSE
    ELSE IF Width(r) < min_area_threshold
            \/ Height(r) < min_area_threshold THEN FALSE
    ELSE IF ObstacleAreaSum(obs) >= Area(r) THEN FALSE
    ELSE IF check_connectivity
            /\ compute_largest_free_space(r, obs) < DRONE_THRESHOLD THEN FALSE
    ELSE TRUE

\* KDTreePartitioning._is_subregion_valid
kd_perimeter_is_subregion_valid(min_area_threshold, check_connectivity, r, obs) ==
    IF IsEmpty(r) THEN FALSE
    ELSE IF Width(r) < min_area_threshold
            \/ Height(r) < min_area_threshold THEN FALSE
    ELSE IF ObstacleAreaSum(obs) >= Area(r) THEN FALSE
    ELSE IF check_connectivity
            /\ compute_largest_free_space(r, obs) < DRONE_THRESHOLD THEN FALSE
    ELSE TRUE

\* the half-perimeter cut of kd_tree_partition taken at the last strip
kd_division_point_last(sp) == sp.strips[Len(sp.strips)][2]

\* the loop of kd_tree_partition over the strips: the right end of the
\* first strip whose cumulative perimeter reaches half the total, or
\* NoCoord (None)
kd_division_point(sp) ==
    IF \A j \in DOMAIN sp.strips :
           2 * query_accumulated_perimeter(sp, sp.strips[j][2])
               < calculate_total_obstacle_perimeter(sp)
    THEN NoCoord
    ELSE sp.strips[CHOOSE j \in DOMAIN sp.strips :
             /\ 2 * query_accumulated_perimeter(sp, sp.strips[j][2])
                    >= calculate_total_obstacle_perimeter(sp)
             /\ \A i \in 1..(j - 1) :
                    2 * query_accumulated_perimeter(sp, sp.strips[i][2])
                        < calculate_total_obstacle_perimeter(sp)][2]

\* what one kd_tree_partition call did: its arguments, the cut it chose,
\* whether each child was kept, and the records it appended itself
KdNode(r, obs, depth, axis, division_point, left_ok, right_ok, stored) ==
    [region |-> r, obstacles |-> obs, depth |-> depth, axis |-> axis,
     division_point |-> division_point, left_ok |-> left_ok,
     right_ok |-> right_ok, stored |-> stored]

\* a call that appends (region, obstacles) and returns
KdStore(r, obs, depth, axis, division_point) ==
    <<KdNode(r, obs, depth, axis, division_point, FALSE, FALSE,
             <<[region |-> r, obstacles |-> obs]>>)>>

\* the tests of kd_tree_partition on one child: validate_geometry, the
\* advanced checks and the narrow test
KdChildOk(k, r, obs) ==
    /\ IsPolygonal(r)
    /\ k.advanced_checks =>
           kd_perimeter_is_subregion_valid(k.min_area_threshold,
               k.check_connectivity, r, obs)
    /\ Width(r) >= k.min_area_threshold
    /\ Height(r) >= k.min_area_threshold

RECURSIVE kd_tree_partition(_, _, _, _, _)
\* kd_tree_partition once divide_region returned parts
KdRecurse(k, r, obs, depth, axis, division_point, parts, left_ok, right_ok) ==
    IF ~left_ok /\ ~right_ok
    THEN KdStore(r, obs, depth, axis, division_point)
    ELSE <<KdNode(r, obs, depth, axis, division_point, left_ok, right_ok,
                  <<>>)>>
         \o (IF left_ok
             THEN kd_tree_partition(k, parts.left, parts.left_obs, depth - 1,
                                    Opposite(axis))
             ELSE <<>>)
         \o (IF right_ok
             THEN kd_tree_partition(k, parts.right, parts.right_obs,
                                    depth - 1, Opposite(axis))
             ELSE <<>>)

\* kd_tree_partition once the division point is chosen
KdDivide(k, r, obs, depth, axis, division_point, parts) ==
    IF division_point = NoCoord \/ ~parts.ok
    THEN KdStore(r, obs, depth, axis, division_point)
    ELSE KdRecurse(k, r, obs, depth, axis, division_point, parts,
                   KdChildOk(k, parts.left, parts.left_obs),
                   KdChildOk(k, parts.right, parts.right_obs))

\* kd_tree_partition with the strip manager built
KdCut(k, r, obs, depth, axis, sp, division_point) ==
    KdDivide(k, r, obs, depth, axis, division_point,
             IF division_point = NoCoord THEN [ok |-> FALSE]
             ELSE divide_region(ObstacleAwareDivider(sp, "brent"),
                                division_point))

\* KDTreePartitioning.kd_tree_partition: the calls made, in call order
kd_tree_partition(k, r, obs, depth, axis) ==
    IF depth <= 0 \/ Area(r) < k.min_area_threshold \/ ~IsPolygonal(r)
    THEN KdStore(r, obs, depth, axis, NoCoord)
    ELSE IF k.advanced_checks /\ kd_perimeter_check_coverage_and_stop(r, obs)
    THEN KdStore(r, obs, depth, axis, NoCoord)
    ELSE KdCut(k, r, obs, depth, axis, Strip(r, obs, axis),
               kd_division_point(Strip(r, obs, axis)))

\* the obstacle loop of naive_kd_partition: every non-empty intersection
\* with the sub-box is kept (make_valid leaves a segment or a point as it is)
RECURSIVE naive_clip_obstacles(_, _)
naive_clip_obstacles(obs, sub_box) ==
    IF obs = <<>> THEN <<>>
    ELSE (IF ~IsEmpty(Intersection(Head(obs), sub_box))
          THEN <<Intersection(Head(obs), sub_box)>> ELSE <<>>)
         \o naive_clip_obstacles(Tail(obs), sub_box)

\* the tests of naive_kd_partition on one sub-box: validate_geometry, the
\* advanced checks and the narrow test
NaiveChildOk(k, r, obs) ==
    /\ IsPolygonal(r)
    /\ k.advanced_checks =>
           kd_naive_is_subregion_valid(k.min_area_threshold,
               k.check_connectivity, r, obs)
    /\ Width(r) >= k.min_area_threshold
    /\ Height(r) >= k.min_area_threshold

RECURSIVE naive_kd_partition(_, _, _, _, _)
\* naive_kd_partition once both sub-boxes are tested
NaiveRecurse(k, r, obs, depth, axis, division_point, left_box, left_obs, right_box, right_obs, left_ok, right_ok) ==
    IF ~left_ok /\ ~right_ok
    THEN KdStore(r, obs, depth, axis, division_point)
    ELSE <<KdNode(r, obs, depth, axis, division_point, left_ok, right_ok,
                  <<>>)>>
         \o (IF left_ok
             THEN naive_kd_partition(k, left_box, left_obs, depth - 1,
                                     Opposite(axis))
             ELSE <<>>)
         \o (IF right_ok
             THEN naive_kd_partition(k, right_box, right_obs, depth - 1,
                                     Opposite(axis))
             ELSE <<>>)

\* naive_kd_partition once the obstacles are clipped to the sub-boxes
NaiveDivide(k, r, obs, depth, axis, division_point, left_box, left_obs, right_box, right_obs) ==
    NaiveRecurse(k, r, obs, depth, axis, division_point,
                 Intersection(left_box, r), left_obs,
                 Intersection(right_box, r), right_obs,
                 NaiveChildOk(k, Intersection(left_box, r), left_obs),
                 NaiveChildOk(k, Intersection(right_box, r), right_obs))

\* naive_kd_partition once the sub-boxes are built
NaiveCut(k, r, obs, depth, axis, division_point, left_box, right_box) ==
    IF IsEmpty(left_box) \/ IsEmpty(right_box)
    THEN KdStore(r, obs, depth, axis, division_point)
    ELSE NaiveDivide(k, r, obs, depth, axis, division_point,
                     left_box, naive_clip_obstacles(obs, left_box),
                     right_box, naive_clip_obstacles(obs, right_box))

\* NaiveKDTreePartitioning.naive_kd_partition: the calls made, in call
\* order; the cut is the midpoint of the bounding box on the axis
naive_kd_partition(k, r, obs, depth, axis) ==
    IF depth <= 0 \/ Area(r) < k.min_area_threshold \/ ~IsPolygonal(r)
    THEN KdStore(r, obs, depth, axis, NoCoord)
    ELSE IF k.advanced_checks /\ kd_naive_check_coverage_and_stop(r, obs)
    THEN KdStore(r, obs, depth, axis, NoCoord)
    ELSE NaiveCut(k, r, obs, depth, axis, (Lo(r, axis) + Hi(r, axis)) \div 2,
                  StripBox(r, axis, Lo(r, axis),
                           (Lo(r, axis) + Hi(r, axis)) \div 2),
                  StripBox(r, axis, (Lo(r, axis) + Hi(r, axis)) \div 2,
                           Hi(r, axis)))

\* every bounding-box midpoint a naive run of this depth can take is a
\* grid coordinate
RECURSIVE MidpointsOnGrid(_, _, _)
MidpointsOnGrid(r, depth, axis) ==
    \/ depth <= 0
    \/ /\ (Lo(r, axis) + Hi(r, axis)) % 2 = 0
       /\ MidpointsOnGrid(
              StripBox(r, axis, Lo(r, axis),
                       (Lo(r, axis) + Hi(r, axis)) \div 2),
              depth - 1, Opposite(axis))

\* a region with its obstacles, a dimension threshold and check_connectivity
InitChecks ==
    /\ region \in Roots
    /\ obstacles \in ObstacleLists(region)
    /\ cfg \in {c \in Configs : /\ c.max_depth = 0
                                /\ c.mode = "track_back"
                                /\ c.numerical_method = "newton"}
    /\ DriverIdle
    /\ selection = NoSelection
    /\ strip_manager = NoStrip
    /\ queried = NoQuery
    /\ called = NoCall
    /\ db = NoDb

\* the coverage stop of the three drivers on the region
CheckCoverageAndStop ==
    /\ called = NoCall
    /\ called' = [op |-> "_check_coverage_and_stop",
                  hierarchical |-> CoverageStop(region, obstacles),
                  kd_naive |-> kd_naive_check_coverage_and_stop(region, obstacles),
                  kd_perimeter |->
                      kd_perimeter_check_coverage_and_stop(region, obstacles)]
    /\ UNCHANGED <<region, obstacles, cfg, driver_vars, selection,
                   strip_manager, queried, db>>

\* the validity gate of the three drivers on the region
CheckSubregionValid ==
    /\ called = NoCall
    /\ called' = [op |-> "_is_subregion_valid",
                  hierarchical |-> is_subregion_valid(cfg, region, obstacles),
                  kd_naive |->
                      kd_naive_is_subregion_valid(cfg.min_dimension_threshold,
                          cfg.check_connectivity, region, obstacles),
                  kd_perimeter |->
                      kd_perimeter_is_subregion_valid(cfg.min_dimension_threshold,
                          cfg.check_connectivity, region, obstacles)]
    /\ UNCHANGED <<region, obstacles, cfg, driver_vars, selection,
                   strip_manager, queried, db>>

\* KDTreePartitioning(region, obstacles, max_depth, ...).run()
KdRun ==
    /\ called = NoCall
    /\ \E advanced_checks \in BOOLEAN, max_depth \in 0..MaxDepthBound :
           called' = [op |-> "kd_tree_partition",
                      advanced_checks |-> advanced_checks,
                      nodes |-> kd_tree_partition(
                          [advanced_checks |-> advanced_checks,
                           min_area_threshold |-> cfg.min_dimension_threshold,
                           check_connectivity |-> cfg.check_connectivity],
                          region, obstacles, max_depth, "x")]
    /\ UNCHANGED <<region, obstacles, cfg, driver_vars, selection,
                   strip_manager, queried, db>>

\* NaiveKDTreePartitioning(region, obstacles, max_depth, ...).run()
NaiveKdRun ==
    /\ called = NoCall
    /\ \E advanced_checks \in BOOLEAN, max_depth \in 0..MaxDepthBound :
           /\ MidpointsOnGrid(region, max_depth, "x")
           /\ called' = [op |-> "naive_kd_partition",
                         advanced_checks |-> advanced_checks,
                         nodes |-> naive_kd_partition(
                             [advanced_checks |-> advanced_checks,
                              min_area_threshold |->
                                  cfg.min_dimension_threshold,
                              check_connectivity |-> cfg.check_connectivity],
                             region, obstacles, max_depth, "x")]
    /\ UNCHANGED <<region, obstacles, cfg, driver_vars, selection,
                   strip_manager, queried, db>>

NextChecks ==
    \/ CheckCoverageAndStop
    \/ CheckSubregionValid
    \/ KdRun
    \/ NaiveKdRun

SpecChecks == InitChecks /\ [][NextChecks]_vars

(***************************************************************************)
(* Preprocessing (preprocessing.py): a RegionWithObstacles object is built *)
(* on a region and a list of obstacle rings, here rectangles that may lie  *)
(* outside the region or across its boundary.  A merged obstacle is the    *)
(* set of the cells it is made of.                                         *)
(***************************************************************************)
\* RegionWithObstacles._create_and_clip_obstacles: every ring clipped to
\* the region, kept unless the intersection is empty
RECURSIVE create_and_clip_obstacles(_, _)
create_and_clip_obstacles(r, rings) ==
    IF rings = <<>> THEN <<>>
    ELSE (IF IsEmpty(Intersection(Head(rings), r)) THEN <<>>
          ELSE <<Intersection(Head(rings), r)>>)
         \o create_and_clip_obstacles(r, Tail(rings))

\* the clipped obstacles that are polygons
PolygonParts(clipped) == SelectSeq(clipped, IsPolygonal)

\* unary_union keeps a segment or a point of its own unless a polygon of
\* the list covers it
LooseParts(clipped) ==
    {i \in DOMAIN clipped :
        /\ ~IsPolygonal(clipped[i])
        /\ \A j \in DOMAIN clipped :
               IsPolygonal(clipped[j])
                   => Intersection(clipped[i], clipped[j]) # clipped[i]}

\* the cells of the region that the polygons cover
CoveredCells(r, polygons) ==
    Cells(r, polygons) \ FreeCells(r, polygons)

\* RegionWithObstacles._merge_obstacles: the polygons of the union, or the
\* ValueError for a union that is neither a Polygon nor a MultiPolygon
merge_obstacles(r, clipped) ==
    IF clipped = <<>> THEN [ok |-> TRUE, merged |-> {}]
    ELSE IF LooseParts(clipped) # {} THEN [ok |-> FALSE]
    ELSE [ok |-> TRUE,
          merged |-> {Component({c}, CoveredCells(r, PolygonParts(clipped))) :
                         c \in CoveredCells(r, PolygonParts(clipped))}]

\* RegionWithObstacles.__init__ on a valid polygonal region
RegionWithObstacles(r, rings) ==
    merge_obstacles(r, create_and_clip_obstacles(r, rings))

\* the region preprocessing runs on
PreprocessRegion == Rect(0, 0, MaxStripSide - 1, MaxStripSide - 1)

\* the obstacle rings: rectangles up to one step beyond the region
Rings(r) ==
    {o \in [minx : (r.minx - 1)..(r.maxx + 1), miny : (r.miny - 1)..(r.maxy + 1),
            maxx : (r.minx - 1)..(r.maxx + 1), maxy : (r.miny - 1)..(r.maxy + 1)] :
        IsPolygonal(o)}

\* the arguments of RegionWithObstacles: up to two rings
InitPreprocess ==
    /\ region = PreprocessRegion
    /\ obstacles \in {<<>>} \cup {<<o>> : o \in Rings(region)}
                       \cup {<<o, p>> : o \in Rings(region), p \in Rings(region)}
    /\ cfg \in {c \in Configs : /\ c.max_depth = 0
                                /\ c.mode = "track_back"
                                /\ c.numerical_method = "newton"
                                /\ c.min_dimension_threshold = 1
                                /\ ~c.check_connectivity}
    /\ DriverIdle
    /\ selection = NoSelection
    /\ strip_manager = NoStrip
    /\ queried = NoQuery
    /\ called = NoCall
    /\ db = NoDb

\* RegionWithObstacles(region, obstacles)
Preprocess ==
    /\ called = NoCall
    /\ called' = [op |-> "RegionWithObstacles",
                  result |-> RegionWithObstacles(region, obstacles)]
    /\ UNCHANGED <<region, obstacles, cfg, driver_vars, selection,
                   strip_manager, queried, db>>

NextPreprocess == Preprocess

SpecPreprocess == InitPreprocess /\ [][NextPreprocess]_vars

(***************************************************************************)
(* The no-fly zone views (db/views.py) on the Map and NoFly tables         *)
(* (db/models.py).  A Map row is its id, a NoFly row its id and the id of  *)
(* its map.  A request carries no map_id, a number (or its decimal text)   *)
(* or a text that is not a number; a response is a status and its data.    *)
(***************************************************************************)
\* largest id of a Map row
MaxMapId == 2
\* largest id of a NoFly row
MaxNoFlyId == 3

\* the tables: every NoFly row has its own id and the id of a stored map
Databases ==
    {d \in [maps : SUBSET (1..MaxMapId),
            noflies : SUBSET [id : 1..MaxNoFlyId, map : 1..MaxMapId]] :
        /\ \A z \in d.noflies : z.map \in d.maps
        /\ \A y, z \in d.noflies : y.id = z.id => y = z}

\* request.data.get('map_id', None)
MapIdValues ==
    {[kind |-> "absent", id |-> 0], [kind |-> "text", id |-> 0]}
        \cup {[kind |-> "number", id |-> n] : n \in 1..(MaxMapId + 1)}

\* NoFlySerializer(no_fly_zones, many=True).data
NoFlySerializer(no_fly_zones) ==
    {[id |-> z.id, map |-> z.map] : z \in no_fly_zones}

\* Response(data): the status defaults to 200
Response(data) == [status |-> 200, data |-> data]

\* an exception no handler catches: the server error response
ServerError(exception) == [status |-> 500, data |-> [exception |-> exception]]

\* the lookups the two views share: map_id, Map.objects.get(id=map_id) and
\* NoFly.objects.filter(map=map_instance); found tells whether they
\* gave a map with no-fly zones, response is what is returned otherwise
lookup_no_fly_zones(d, map_id, none_message) ==
    IF map_id.kind = "absent"
    THEN [found |-> FALSE, response |-> Response([error |-> "map_id is required"])]
    ELSE IF map_id.kind = "text"
    THEN [found |-> FALSE, response |-> ServerError("ValueError")]
    ELSE IF map_id.id \notin d.maps
    THEN [found |-> FALSE,
          response |-> Response([error |-> "map_id does not exist"])]
    ELSE IF {z \in d.noflies : z.map = map_id.id} = {}
    THEN [found |-> FALSE, response |-> Response([error |-> none_message])]
    ELSE [found |-> TRUE,
          no_fly_zones |-> {z \in d.noflies : z.map = map_id.id}]

\* MapNoFlies.post
MapNoFlies_post(d, map_id) ==
    IF ~lookup_no_fly_zones(d, map_id,
            "No-fly zones were not generated for this map").found
    THEN lookup_no_fly_zones(d, map_id,
            "No-fly zones were not generated for this map").response
    ELSE Response([map_id |-> map_id.id,
                   no_fly_zones |-> NoFlySerializer(
                       lookup_no_fly_zones(d, map_id,
                           "No-fly zones were not generated for this map")
                           .no_fly_zones)])

\* NoFlyData.post
NoFlyData_post(d, map_id) ==
    IF ~lookup_no_fly_zones(d, map_id,
            "No-fly zones have not been generated for this map").found
    THEN lookup_no_fly_zones(d, map_id,
            "No-fly zones have not been generated for this map").response
    ELSE Response([no_fly_zones |-> NoFlySerializer(
                       lookup_no_fly_zones(d, map_id,
                           "No-fly zones have not been generated for this map")
                           .no_fly_zones)])

\* the tables as some earlier requests left them
InitViews ==
    /\ region = Rect(0, 0, 1, 1)
    /\ obstacles = <<>>
    /\ cfg \in {c \in Configs : /\ c.max_depth = 0
                                /\ c.mode = "track_back"
                                /\ c.numerical_method = "newton"
                                /\ c.min_dimension_threshold = 1
                                /\ ~c.check_connectivity}
    /\ DriverIdle
    /\ selection = NoSelection
    /\ strip_manager = NoStrip
    /\ queried = NoQuery
    /\ called = NoCall
    /\ db \in Databases

\* POST to MapNoFlies
PostMapNoFlies ==
    \E map_id \in MapIdValues :
        /\ called' = [op |-> "MapNoFlies.post", map_id |-> map_id,
                      response |-> MapNoFlies_post(db, map_id)]
        /\ UNCHANGED <<region, obstacles, cfg, driver_vars, selection,
                       strip_manager, queried, db>>

\* POST to NoFlyData
PostNoFlyData ==
    \E map_id \in MapIdValues :
        /\ called' = [op |-> "NoFlyData.post", map_id |-> map_id,
                      response |-> NoFlyData_post(db, map_id)]
        /\ UNCHANGED <<region, obstacles, cfg, driver_vars, selection,
                       strip_manager, queried, db>>

NextViews ==
    \/ PostMapNoFlies
    \/ PostNoFlyData

SpecViews == InitViews /\ [][NextViews]_vars

(***************************************************************************)
(* Properties of the driver, checked under Spec                            *)
(***************************************************************************)
\* the unit squares of the grid inside r
UnitCells(r) ==
    {Rect(x, y, x + 1, y + 1) : x \in r.minx..(r.maxx - 1),
                                y \in r.miny..(r.maxy - 1)}

\* the records of parts whose region covers the unit square c
Covering(parts, c) ==
    {i \in DOMAIN parts : IsPolygonal(Intersection(c, parts[i].region))}

\* the number of records of parts with the valid flag set
ValidCount(parts) == Cardinality({i \in DOMAIN parts : parts[i].valid})

\* run() has returned in track_back mode
Returned_track_back == pc = "done" /\ cfg.mode = "track_back"

\* the _decompose calls that ended false after the selection or the
\* partition attempt failed
FailedAfterSelection ==
    {n \in failed_nodes : n.why \in {"selection", "partition"}}

\* C1: the regions of the records run() returns cover the root region, and
\* no two of them overlap: every unit square of the root lies in the region
\* of exactly one record.
C1_RecordsTileRoot ==
    Returned_track_back =>
        \A c \in UnitCells(region) : Cardinality(Covering(partitions, c)) = 1

\* C2: in track_back mode run() returns at least one record.
C2_TrackBackNonEmpty == Returned_track_back => Len(partitions) >= 1

\* C2 witness: a recursion at max_depth >= 1 that stored nothing, after
\* which run() returned the root alone.
C2_RootStoredAfterEmptyRecursion ==
    /\ Returned_track_back
    /\ cfg.max_depth >= 1
    /\ ~ret
    /\ partitions = <<Record(region, obstacles, <<>>, TRUE)>>

\* C3: when the top-level _decompose call returned false, run() returns
\* exactly one record, the root region with empty axis history, valid.
C3_FalseRootStoredOnce ==
    (Returned_track_back /\ ~ret) =>
        partitions = <<Record(region, obstacles, <<>>, TRUE)>>

C5_AxisHistoryWithinDepth ==
    \A i \in DOMAIN partitions :
        Len(partitions[i].axis_history) <= cfg.max_depth

\* C5 witness: run() returned a record whose axis_history has max_depth
\* entries, at the largest max_depth.
C5_LeafAtFullDepth ==
    /\ pc = "done"
    /\ cfg.max_depth = MaxDepthBound
    /\ \E i \in DOMAIN partitions :
           Len(partitions[i].axis_history) = cfg.max_depth

C7_FallbackNoFewerValid ==
    (run_no = 2 /\ pc = "done") =>
        ValidCount(partitions) >= ValidCount(prev_partitions)

\* C7 witness: the second run went through the fallback branch after a
\* failed attempt and both runs returned a valid record.
C7_FallbackBranchTaken ==
    /\ run_no = 2 /\ pc = "done"
    /\ \E n \in failed_nodes : n.why = "partition"
    /\ ValidCount(prev_partitions) >= 1
    /\ ValidCount(partitions) >= ValidCount(prev_partitions)

\* the root is covered to 90% or more, with a free area and a largest free
\* polygon below DRONE_THRESHOLD
DenseRoot ==
    /\ CoverageAtLeastStop(region, obstacles)
    /\ Area(region) - ObstacleAreaSum(obstacles) < DRONE_THRESHOLD
    /\ compute_largest_free_space(region, obstacles) < DRONE_THRESHOLD

\* C14: for a root that meets the coverage stop, run() on a new driver
\* object returns exactly one record, and its region is the root.
C14_CoverageStopSingleRecord ==
    (pc = "done" /\ run_no # 3 /\ DenseRoot) =>
        /\ Len(partitions) = 1
        /\ partitions[1].region = region

\* C14 witness: a root covered to 90% or more with some free space left,
\* returned alone by a run with max_depth >= 1.
C14_DenseRootReturned ==
    /\ pc = "done"
    /\ cfg.max_depth >= 1
    /\ DenseRoot
    /\ ObstacleAreaSum(obstacles) < Area(region)
    /\ Len(partitions) = 1
    /\ partitions[1].region = region

\* C15: a second run() call on the same driver object returns the list the
\* first call returned.
C15_RepeatedRunSameRecords ==
    (run_no = 3 /\ pc = "done") => partitions = prev_partitions

(***************************************************************************)
(* Properties of select_best_axis, checked under SpecAxis                  *)
(***************************************************************************)
\* select_best_axis returned without raising
Selected == selection.done /\ selection.result.ok

\* the metrics of the axis select_best_axis returned, and of the other axis
ChosenMetrics ==
    IF selection.result.best_axis = "x" THEN selection.result.metrics_x
    ELSE selection.result.metrics_y

OtherMetrics ==
    IF selection.result.best_axis = "x" THEN selection.result.metrics_y
    ELSE selection.result.metrics_x

\* |NWCRT_x - NWCRT_y| <= tie_threshold
NwcrtTie ==
    Abs(selection.result.metrics_x.NWCRT - selection.result.metrics_y.NWCRT)
        * TieThresholdInv <= NScale

\* the two axes have the same MSDU
MsduEqual ==
    /\ ~MsduGreater(selection.result.metrics_x.MSDU,
                    selection.result.metrics_y.MSDU)
    /\ ~MsduGreater(selection.result.metrics_y.MSDU,
                    selection.result.metrics_x.MSDU)

\* C8: on an NWCRT tie the returned axis has an MSDU at least the other
\* axis's; otherwise it has the strictly smaller NWCRT.  The division point
\* and the two sub-regions returned are those computed for the returned
\* axis.
C8_AxisRule ==
    Selected =>
        /\ NwcrtTie => ~MsduGreater(OtherMetrics.MSDU, ChosenMetrics.MSDU)
        /\ ~NwcrtTie => ChosenMetrics.NWCRT < OtherMetrics.NWCRT
        /\ ChosenMetrics.axis = selection.result.best_axis
        /\ selection.result.division_point = ChosenMetrics.division_point
        /\ selection.result.sub_left = ChosenMetrics.subregion_left
        /\ selection.result.sub_right = ChosenMetrics.subregion_right

\* C8 witness: a selection decided by NWCRT alone, in favour of y, on a
\* region with an obstacle.
C8_DecidedByNwcrt ==
    /\ Selected
    /\ selection.evaluated
    /\ ~NwcrtTie
    /\ selection.result.best_axis = "y"
    /\ obstacles # <<>>

C10_CumulativePerimeter ==
    /\ \A e1, e2 \in DOMAIN strip_manager.cumulative_perimeters :
           e1 < e2 => strip_manager.cumulative_perimeters[e1]
                          <= strip_manager.cumulative_perimeters[e2]
    /\ queried.done =>
           \A c1 \in Lo(region, strip_manager.axis)..queried.coord :
               query_accumulated_perimeter(strip_manager, c1) <= queried.value
    /\ strip_manager.cumulative_perimeters[Hi(region, strip_manager.axis)]
           = calculate_total_obstacle_perimeter(strip_manager)

\* C10 witness: two obstacles with edges on the same sweepline inside the
\* region, queried at the region's max bound.
C10_CollinearEdgesQueried ==
    /\ queried.done
    /\ queried.coord = Hi(region, strip_manager.axis)
    /\ queried.value = calculate_total_obstacle_perimeter(strip_manager)
    /\ queried.value > 0
    /\ Len(obstacles) = 2
    /\ Hi(obstacles[1], strip_manager.axis)
           = Lo(obstacles[2], strip_manager.axis)
    /\ Lo(obstacles[1], strip_manager.axis) > Lo(region, strip_manager.axis)

\* the length of the obstacle edges that lie on the sweepline at e, the
\* region's own bounds left out
SweeplineEdgeLength(e) ==
    IF e = Lo(region, strip_manager.axis) \/ e = Hi(region, strip_manager.axis)
    THEN 0
    ELSE SeqSum([i \in DOMAIN obstacles |->
            (IF Lo(obstacles[i], strip_manager.axis) = e
             THEN OHi(obstacles[i], strip_manager.axis)
                  - OLo(obstacles[i], strip_manager.axis) ELSE 0)
            + (IF Hi(obstacles[i], strip_manager.axis) = e
               THEN OHi(obstacles[i], strip_manager.axis)
                    - OLo(obstacles[i], strip_manager.axis) ELSE 0)])

\* coord is the right end of the first strip
EndsFirstStrip(coord) == coord = strip_manager.strips[1][2]

FoundStrip == strip_manager.strips[called.k]

\* C11: the strip returned by find_strip_of_interest has g(c_prev) <= 0 and
\* g(c_curr) >= 0.
C11_StripStraddlesSignChange ==
    called.op = "find_strip_of_interest" =>
        /\ called.k # 0
        /\ g(Divider, FoundStrip[1]) <= 0
        /\ g(Divider, FoundStrip[2]) >= 0

\* C11 witness: the strip found is neither the first nor the last one, and
\* g is negative at its left end and positive at its right end.
C11_InnerStripFound ==
    /\ called.op = "find_strip_of_interest"
    /\ called.k > 1
    /\ called.k < Len(strip_manager.strips)
    /\ g(Divider, FoundStrip[1]) < 0
    /\ g(Divider, FoundStrip[2]) > 0

\* g changes sign over the bracket the strip's case hands to the solver:
\* c_prev to c_curr, or c_prev to just below c_curr in case 3
BracketSignChange ==
    IF determine_case_for_strip(Divider, called.k) = 3
    THEN Sign(g(Divider, FoundStrip[1]))
             * Sign(g_below(Divider, FoundStrip[2])) < 0
    ELSE Sign(g(Divider, FoundStrip[1])) * Sign(g(Divider, FoundStrip[2])) < 0

\* C12: find_optimal_division_point never raises, returns c_curr when g has
\* no sign change over the bracket, and otherwise a coordinate of the
\* strip.
C12_SolverOnlyOnSignChange ==
    called.op = "find_optimal_division_point" =>
        /\ called.result.ok
        /\ ~BracketSignChange => called.result.value = FoundStrip[2]
        /\ called.result.value >= FoundStrip[1]
        /\ called.result.value <= FoundStrip[2]

\* C12 witness: a division point strictly inside the strip, which only the
\* solver returns, with the Brent method.
C12_SolverCalled ==
    /\ called.op = "find_optimal_division_point"
    /\ cfg.numerical_method = "brent"
    /\ BracketSignChange
    /\ called.result.ok
    /\ called.result.value > FoundStrip[1]
    /\ called.result.value < FoundStrip[2]

\* C16: solve_for_root_brent raises whenever f(a) * f(b) is not negative.
C16_BrentRaisesUnlessSignChange ==
    (called.op = "solve_for_root_brent"
        /\ ~(Sign(called.fa) * Sign(called.fb) < 0)) => ~called.result.ok

C18_PreprocessingNeverRaises ==
    called.op = "RegionWithObstacles" =>
        /\ called.result.ok
        /\ \A a, b \in called.result.merged : a # b => a \cap b = {}
        /\ \A a \in called.result.merged : \A c \in a :
               /\ Intersection(c, region) = c
               /\ \E i \in DOMAIN obstacles :
                      IsPolygonal(Intersection(c, obstacles[i]))

ViewPosted == called.op \in {"MapNoFlies.post", "NoFlyData.post"}

\* C20: a POST to NoFlyData or MapNoFlies is answered with status 200:
\* with the error "map_id is required" without a map_id, with the error
\* "map_id does not exist" for a map_id that no Map row has, with an error
\* for a map without no-fly zones, and only otherwise with the serialized
\* no-fly zones of exactly that map.
C20_FailuresReportedAsValues ==
    ViewPosted =>
        /\ called.response.status = 200
        /\ called.map_id.kind = "absent"
               => called.response.data = [error |-> "map_id is required"]
        /\ (called.map_id.kind # "absent" /\ called.map_id.id \notin db.maps)
               => called.response.data = [error |-> "map_id does not exist"]
        /\ (called.map_id.id \in db.maps
                /\ \A z \in db.noflies : z.map # called.map_id.id)
               => "error" \in DOMAIN called.response.data
        /\ "no_fly_zones" \in DOMAIN called.response.data
               => /\ called.map_id.id \in db.maps
                  /\ called.response.data.no_fly_zones # {}
                  /\ called.response.data.no_fly_zones
                         = {[id |-> z.id, map |-> z.map] :
                               z \in {y \in db.noflies :
                                          y.map = called.map_id.id}}

(***************************************************************************)
(* Further properties of the divider, checked under SpecDivider            *)
(***************************************************************************)
\* the right ends of the strips at which WCRT_left >= WCRT_right
BalancedOrBeyond ==
    {j \in DOMAIN strip_manager.strips :
        g(Divider, strip_manager.strips[j][2]) >= 0}

\* C21: find_strip_of_interest returns the first strip at whose right end
\* WCRT_left >= WCRT_right, equality included, so that when g is 0 at an
\* event find_optimal_division_point returns that event.
C21_FirstStripAtOrBeyondBalance ==
    /\ called.op = "find_strip_of_interest" =>
           /\ called.k \in BalancedOrBeyond
           /\ \A j \in BalancedOrBeyond : called.k <= j
    /\ called.op = "find_optimal_division_point" =>
           \A j \in DOMAIN strip_manager.strips :
               g(Divider, strip_manager.strips[j][2]) = 0
                   => /\ called.result.ok
                      /\ called.result.value = strip_manager.strips[j][2]

(***************************************************************************)
(* Properties of the case of a strip, checked under SpecCase               *)
(***************************************************************************)
\* an obstacle given to the strip manager has an edge on the sweepline at
\* coord_curr
InputEdgeOnSweepline ==
    \E i \in DOMAIN obstacles : \E e \in RingEdges(obstacles[i]) :
        /\ Along(e[1], called.axis) = called.coord_curr
        /\ Along(e[2], called.axis) = called.coord_curr

\* C22: determine_case_for_strip returns 3 exactly when the strip has
\* obstacle perimeter and an edge of an obstacle lies on the sweepline at
\* c_curr, 1 when the strip has no obstacle perimeter, and 2 otherwise.
C22_CaseThreeOnlyForInputEdge ==
    called.op = "determine_case_for_strip" =>
        /\ called.case = 3
              <=> (/\ ring_strip_perimeter(region, obstacles, called.axis,
                          called.coord_prev, called.coord_curr)
                   /\ InputEdgeOnSweepline)
        /\ called.case = 1
              <=> ~ring_strip_perimeter(region, obstacles, called.axis,
                       called.coord_prev, called.coord_curr)

(***************************************************************************)
(* Further properties of the strip manager, checked under SpecStrip        *)
(***************************************************************************)
\* the largest event at or below the coordinate queried
EventBelowQuery ==
    CHOOSE e \in {strip_manager.events[i] : i \in DOMAIN strip_manager.events} :
        /\ e <= queried.coord
        /\ \A i \in DOMAIN strip_manager.events :
               strip_manager.events[i] <= queried.coord
                   => strip_manager.events[i] <= e

\* C23: query_accumulated_perimeter(c) is the cumulative perimeter cached
\* at the largest event at or below c, 0 at the region's min bound, plus
\* the obstacle perimeter of the partial strip from that event to c.
C23_QueryIsCachedPlusPartial ==
    queried.done =>
        queried.value
            = (IF EventBelowQuery = Lo(region, strip_manager.axis) THEN 0
               ELSE strip_manager.cumulative_perimeters[EventBelowQuery])
              + (IF EventBelowQuery = queried.coord THEN 0
                 ELSE compute_strip_perimeter(region, obstacles,
                          strip_manager.axis, EventBelowQuery, queried.coord))

(***************************************************************************)
(* Further properties of the selector, checked under SpecAxis              *)
(***************************************************************************)
\* a polygon with its width and height swapped
Swapped(r) == Rect(r.miny, r.minx, r.maxy, r.maxx)

\* C24: the squareness of each child that enters MSDU lies in [0, 1], and
\* MSDU is the same when the width and the height of both children are
\* swapped.
C24_SquarenessSymmetric ==
    (Selected /\ selection.evaluated) =>
        \A m \in {selection.result.metrics_x, selection.result.metrics_y} :
            /\ square_measure(m.subregion_left.region).n
                   <= square_measure(m.subregion_left.region).d
            /\ square_measure(m.subregion_right.region).n
                   <= square_measure(m.subregion_right.region).d
            /\ m.MSDU.num
                   * calculate_squareness_metrics(
                         square_measure(Swapped(m.subregion_left.region)),
                         square_measure(Swapped(m.subregion_right.region))).den
                 = m.MSDU.den
                   * calculate_squareness_metrics(
                         square_measure(Swapped(m.subregion_left.region)),
                         square_measure(Swapped(m.subregion_right.region))).num

(***************************************************************************)
(* Properties of the KD-tree drivers, checked under SpecChecks             *)
(***************************************************************************)
\* the kd_tree_partition calls that got as far as choosing a cut
KdCutNodes ==
    {i \in DOMAIN called.nodes :
        /\ called.nodes[i].depth > 0
        /\ ~(called.advanced_checks
                /\ CoverageStop(called.nodes[i].region,
                                called.nodes[i].obstacles))}

\* the strip right ends of node n whose cumulative obstacle perimeter is at
\* least half the total
HalfPerimeterReached(n) ==
    {c \in Lo(n.region, n.axis)..Hi(n.region, n.axis) :
        /\ \E j \in DOMAIN Strip(n.region, n.obstacles, n.axis).strips :
               Strip(n.region, n.obstacles, n.axis).strips[j][2] = c
        /\ 2 * query_accumulated_perimeter(
                   Strip(n.region, n.obstacles, n.axis), c)
               >= calculate_total_obstacle_perimeter(
                      Strip(n.region, n.obstacles, n.axis))}

\* divide_region raises for the cut of node n
KdDivideRaises(n) ==
    ~divide_region(ObstacleAwareDivider(
                       Strip(n.region, n.obstacles, n.axis), "brent"),
                   n.division_point).ok

PolygonalWithin(o, r) ==
    /\ IsPolygonal(o)
    /\ r.minx <= o.minx /\ o.maxx <= r.maxx
    /\ r.miny <= o.miny /\ o.maxy <= r.maxy

\* C26: in every record stored by a KD driver (naive or half-perimeter),
\* each obstacle is a polygon with positive area inside the record's
\* region; no segment or point left over by the clipping is kept.
C26_ClippedObstaclesPolygonal ==
    called.op \in {"kd_tree_partition", "naive_kd_partition"} =>
        \A i \in DOMAIN called.nodes :
            \A j \in DOMAIN called.nodes[i].stored :
                \A n \in DOMAIN called.nodes[i].stored[j].obstacles :
                    PolygonalWithin(called.nodes[i].stored[j].obstacles[n],
                                    called.nodes[i].stored[j].region)

(***************************************************************************)
(* Properties of the hierarchical driver's axis stack and validity flags,  *)
(* checked under Spec                                                      *)
(***************************************************************************)
\* an _attempt_partition call that has pushed its axis and is waiting for
\* a recursive _decompose call
AttemptRecursing(f) == f.kind = "attempt" /\ f.pc # "entry"

\* the axes of the _attempt_partition calls that are waiting for a
\* recursive call, outermost first
ActiveAxes ==
    [i \in DOMAIN SelectSeq(stack, AttemptRecursing) |->
        SelectSeq(stack, AttemptRecursing)[i].axis]

\* C27: _attempt_partition leaves axis_stack as it found it on every
\* return path: axis_stack always holds exactly the axes of the attempts
\* still waiting for a recursive call, its length at the entry of
\* _decompose(depth = d) is d, and it is empty when run() has returned.
C27_AxisStackBalanced ==
    /\ pc = "running" => axis_stack = ActiveAxes
    /\ \A i \in DOMAIN stack :
           (stack[i].kind = "decompose" /\ stack[i].pc = "entry")
               => Len(axis_stack) = stack[i].depth
    /\ pc = "done" => axis_stack = <<>>

\* C27 witness: run() has returned after an attempt at depth 1 was made
\* and another attempt failed, with at least two records stored.
C27_DeepRunReturned ==
    /\ pc = "done"
    /\ \E a \in attempts : a.depth = 1
    /\ \E n \in failed_nodes : n.why = "partition"
    /\ Len(partitions) >= 2

\* the coverage-stop condition of _decompose, written out
CoverageStopCondition(r, obs) ==
    /\ ObstacleAreaSum(obs) * CoverageDen >= CoverageNum * Area(r)
    /\ Area(r) - ObstacleAreaSum(obs) < DRONE_THRESHOLD
    /\ compute_largest_free_space(r, obs) < DRONE_THRESHOLD

\* C28: every record stored below the root (axis_history non-empty) has
\* its valid flag true and was not stored by the coverage stop; no
\* _decompose call at depth >= 1 fails its emptiness or validity guard; a
\* record flagged invalid is the root region with an empty axis history.
C28_RecordsBelowRootValid ==
    /\ \A i \in DOMAIN partitions :
           partitions[i].axis_history # <<>>
               => /\ partitions[i].valid
                  /\ ~CoverageStopCondition(partitions[i].region,
                                            partitions[i].obstacles)
    /\ \A n \in failed_nodes :
           n.depth >= 1 => n.why \notin {"empty", "invalid"}
    /\ \A i \in DOMAIN partitions :
           ~partitions[i].valid
               => /\ partitions[i].region = region
                  /\ partitions[i].axis_history = <<>>

\* C28 witness: run() has returned with a record stored two levels below
\* the root that carries clipped obstacles, and with a child call that
\* returned false.
C28_DeepRecordStored ==
    /\ pc = "done"
    /\ \E i \in DOMAIN partitions :
           /\ Len(partitions[i].axis_history) = 2
           /\ partitions[i].obstacles # <<>>
           /\ partitions[i].valid
    /\ \E n \in failed_nodes : n.depth >= 1

\* C29: every record whose region meets the coverage-stop condition is
\* flagged invalid and is the root with an empty axis history, and a run
\* on a coverage-stopped root returns that record alone (once more for a
\* second run() on the same object).
C29_CoverageStopStoresInvalid ==
    /\ \A i \in DOMAIN partitions :
           CoverageStopCondition(partitions[i].region,
                                 partitions[i].obstacles)
               => partitions[i] = Record(region, obstacles, <<>>, FALSE)
    /\ (pc = "done" /\ CoverageStopCondition(region, obstacles))
           => partitions
                 = IF run_no = 3
                   THEN <<Record(region, obstacles, <<>>, FALSE),
                          Record(region, obstacles, <<>>, FALSE)>>
                   ELSE <<Record(region, obstacles, <<>>, FALSE)>>

\* C29 witness: a run allowed to recurse has returned a coverage-stopped
\* root as its only record, flagged invalid.
C29_CoverageStoppedRoot ==
    /\ pc = "done"
    /\ cfg.max_depth > 0
    /\ CoverageStopCondition(region, obstacles)
    /\ partitions = <<Record(region, obstacles, <<>>, FALSE)>>

(***************************************************************************)
(* The solver's result against its bracket, checked under SpecSolver       *)
(***************************************************************************)
\* C30: the coordinate returned by find_optimal_division_point lies in the
\* strip of interest [c_prev, c_curr], for both numerical methods, and so
\* within the region's bounds on the axis.
C30_RootWithinBracket ==
    (called.op = "find_optimal_division_point" /\ called.result.ok)
        => /\ strip_manager.strips[called.k][1] * Sub <= called.result.value
           /\ called.result.value <= strip_manager.strips[called.k][2] * Sub
           /\ Lo(region, strip_manager.axis) * Sub <= called.result.value
           /\ called.result.value <= Hi(region, strip_manager.axis) * Sub

=============================================================================
